---------------------------- MODULE Spec2Model ----------------------------
(***************************************************************************)
(* Model of megatron/core/optimizer/distrib_optimizer.py: the partitioning *)
(* of grad-buffer buckets into per-rank shards, the four coordinate frames *)
(* recorded for every owned parameter, and the checkpoint protocols.       *)
(*                                                                         *)
(* Ranks are numbered 0..data_parallel_world_size-1 as in the source.  A   *)
(* parameter is identified by its position in its buffer's                 *)
(* param_index_map (the iteration order of that dict).                     *)
(***************************************************************************)
EXTENDS Integers, Sequences, FiniteSets, TLC

(***************************************************************************)
(* Bounds of the model.                                                    *)
(***************************************************************************)
MaxWorldSize == 4
MaxNumel == 6
MaxOffset == 1

VARIABLES
    data_parallel_world_size,  \* data_parallel_group.size()
    buffers,                   \* self.buffers: the _ParamAndGradBuffer objects
    pc,                        \* per rank: where the rank is in its calls
    range_locals,              \* per rank: the locals of _build_model_gbuf_range
    gbuf_ranges,               \* per rank: self.gbuf_ranges
    param_groups,              \* the param_groups the inner optimizer is created with
    model_param_group_index_map, \* per rank: self.model_param_group_index_map
    optimizer_param_groups,    \* per rank: self.optimizer.param_groups[i]["params"]
    tensors,                   \* per rank: main params and self.optimizer.state
    step,                      \* per rank: number of the next collective of the call
    in_collective,             \* per rank: blocked in that collective
    local_shards,              \* per rank: local_shards of the bucket being saved
    state_dict,                \* the checkpoint: the state DP rank 0 returned
    with_megatron_fsdp_code_path, \* self.ddp_config.with_megatron_fsdp_code_path
    sharding_type,             \* the sharding_type sharded_state_dict is called with
    model_sharded_state_dict,  \* the model_sharded_state_dict it is called with
    opt_group_ranges,          \* per rank: self.opt_group_ranges
    shard_groups,              \* per rank: the five groups of
                               \* _build_model_and_main_param_groups
    state,                     \* per rank: state of get_parameter_state_dp_zero
    param_state,               \* per rank: what sharded_state_dict returned
    checkpoint_sharding_type,  \* per rank: the tag of the state_dict given to load_state_dict
    loader,                    \* per rank: the loader load_state_dict invoked
    raised                     \* per rank: what the raised exception names

vars == <<data_parallel_world_size, buffers, pc, range_locals, gbuf_ranges,
          param_groups, model_param_group_index_map, optimizer_param_groups,
          tensors, step, in_collective, local_shards, state_dict,
          with_megatron_fsdp_code_path, sharding_type, model_sharded_state_dict,
          opt_group_ranges, shard_groups, state, param_state,
          checkpoint_sharding_type, loader, raised>>

layout_vars == <<data_parallel_world_size, buffers, param_groups,
                 with_megatron_fsdp_code_path, sharding_type,
                 model_sharded_state_dict>>

range_vars == <<range_locals, gbuf_ranges>>

group_vars == <<model_param_group_index_map, optimizer_param_groups,
                opt_group_ranges, shard_groups>>

optimizer_vars == <<group_vars, tensors>>

checkpoint_vars == <<step, in_collective, local_shards, state_dict, state, param_state,
                     checkpoint_sharding_type, loader>>

Max(a, b) == IF a >= b THEN a ELSE b

Min(a, b) == IF a <= b THEN a ELSE b

Ranks == 0 .. (data_parallel_world_size - 1)

(***************************************************************************)
(* class Range                                                             *)
(***************************************************************************)
Range(start, end) == [start |-> start, end |-> end, size |-> end - start]

normalize(range, start) == Range(start, start + range.size)

\* The indexes a range covers (tensor[range.start : range.end]).
Indexes(range) == range.start .. (range.end - 1)

(***************************************************************************)
(* DistributedOptimizer._build_model_gbuf_param_range_map                  *)
(***************************************************************************)
ParamLocalStart(param_world_indexes, gbuf_world_range) ==
    Max(0, param_world_indexes.start - gbuf_world_range.start)

\* Mutant: the end is not clamped to the shard's size.
ParamLocalEndUnclamped(param_world_indexes, gbuf_world_range) ==
    param_world_indexes.end - gbuf_world_range.start

ParamLocalEnd(param_world_indexes, gbuf_world_range) ==
    Min(gbuf_world_range.size, param_world_indexes.end - gbuf_world_range.start)

\* Mutant: every shard is taken to begin at the parameter's first element.
SubParamStartZero(param_world_indexes, gbuf_world_range) == 0

\* Mutant: the operands of the subtraction are exchanged.
SubParamStartSwapped(param_world_indexes, gbuf_world_range) ==
    Max(0, param_world_indexes.start - gbuf_world_range.start)

SubParamStart(param_world_indexes, gbuf_world_range) ==
    Max(0, gbuf_world_range.start - param_world_indexes.start)

\* Mutant: the bucket offset is not subtracted for gbuf_world_in_bucket.
ParamRangeEntryBucketUnshifted(param_world_indexes, gbuf_world_range, bucket_offset) ==
    LET param_local_range ==
            Range(Max(0, param_world_indexes.start - gbuf_world_range.start),
                  Min(gbuf_world_range.size,
                      param_world_indexes.end - gbuf_world_range.start))
        param_world_range ==
            normalize(param_local_range, param_local_range.start + gbuf_world_range.start)
        sub_param_range ==
            normalize(param_local_range,
                      Max(0, gbuf_world_range.start - param_world_indexes.start))
    IN  [gbuf_world |-> param_world_range,
         gbuf_world_in_bucket |-> param_world_range,
         gbuf_local |-> param_local_range,
         param |-> sub_param_range]

ParamRangeEntry(param_world_indexes, gbuf_world_range, bucket_offset) ==
    LET param_local_range ==
            Range(ParamLocalStart(param_world_indexes, gbuf_world_range),
                  ParamLocalEnd(param_world_indexes, gbuf_world_range))
        param_world_range ==
            normalize(param_local_range, param_local_range.start + gbuf_world_range.start)
        param_world_range_in_bucket ==
            Range(param_world_range.start - bucket_offset,
                  param_world_range.end - bucket_offset)
        sub_param_range ==
            normalize(param_local_range, SubParamStart(param_world_indexes, gbuf_world_range))
    IN  [gbuf_world |-> param_world_range,
         gbuf_world_in_bucket |-> param_world_range_in_bucket,
         gbuf_local |-> param_local_range,
         param |-> sub_param_range]

\* Mutant: an empty intersection is added too.
ParamIsAddedNonStrict(param_world_indexes, gbuf_world_range) ==
    Min(gbuf_world_range.size, param_world_indexes.end - gbuf_world_range.start)
        >= Max(0, param_world_indexes.start - gbuf_world_range.start)

\* Mutant: an intersection of a single element is dropped.
ParamIsAddedAtLeastTwo(param_world_indexes, gbuf_world_range) ==
    Min(gbuf_world_range.size, param_world_indexes.end - gbuf_world_range.start)
        > Max(0, param_world_indexes.start - gbuf_world_range.start) + 1

\* "Add param, if within local gbuf range."
ParamIsAdded(param_world_indexes, gbuf_world_range) ==
    ParamLocalEnd(param_world_indexes, gbuf_world_range)
        > ParamLocalStart(param_world_indexes, gbuf_world_range)

BuildModelGbufParamRangeMap(param_world_index_map, gbuf_world_range, bucket_offset) ==
    LET added == {param \in DOMAIN param_world_index_map :
                      ParamIsAdded(param_world_index_map[param], gbuf_world_range)}
    IN  [param \in added |->
            ParamRangeEntry(param_world_index_map[param], gbuf_world_range, bucket_offset)]

(***************************************************************************)
(* DistributedOptimizer._build_model_gbuf_range                            *)
(***************************************************************************)
\* Mutant: the assertion is missing.
BucketSizeDivisibleUnchecked(bucket, world_size) == TRUE

\* The assertion on the bucket's buffer size.
BucketSizeDivisible(bucket, world_size) == bucket.numel % world_size = 0

MaxGbufRangeSize(bucket, world_size) == bucket.numel \div world_size

\* Mutant: the bucket's offset in the grad buffer is not added.
GbufWorldRangeNoOffset(bucket, world_size, r) ==
    LET gbuf_world_start == r * (bucket.numel \div world_size)
        gbuf_world_end ==
            Min(bucket.numel, gbuf_world_start + (bucket.numel \div world_size))
    IN  Range(gbuf_world_start, gbuf_world_end)

GbufWorldRange(bucket, world_size, r) ==
    LET gbuf_world_start == r * MaxGbufRangeSize(bucket, world_size)
        gbuf_world_end ==
            Min(bucket.numel, gbuf_world_start + MaxGbufRangeSize(bucket, world_size))
    IN  Range(gbuf_world_start + bucket.offset, gbuf_world_end + bucket.offset)

GbufWorldAllRanges(bucket, world_size) ==
    [r \in 0 .. (world_size - 1) |-> GbufWorldRange(bucket, world_size, r)]

\* Mutant: the first rank's range is taken on every rank.
LocalGbufWorldRangeFirst(bucket, world_size, data_parallel_rank) ==
    [r \in 0 .. (world_size - 1) |->
        LET gbuf_world_start == r * (bucket.numel \div world_size)
        IN  Range(gbuf_world_start + bucket.offset,
                  Min(bucket.numel, gbuf_world_start + (bucket.numel \div world_size))
                      + bucket.offset)][0]

\* "Local DP's ranges."
LocalGbufWorldRange(bucket, world_size, data_parallel_rank) ==
    GbufWorldAllRanges(bucket, world_size)[data_parallel_rank]

BuildModelGbufRange(buffer, bucket_index, world_size, data_parallel_rank) ==
    LET bucket == buffer.buckets[bucket_index]
    IN  [param_map |->
            BuildModelGbufParamRangeMap(
                buffer.param_index_map,
                LocalGbufWorldRange(bucket, world_size, data_parallel_rank),
                bucket.offset)]

(***************************************************************************)
(* DistributedOptimizer._build_gbuf_range_map                              *)
(***************************************************************************)
BuildGbufRangeMap(buffer, world_size, data_parallel_rank) ==
    [bucket_index \in 1 .. Len(buffer.buckets) |->
        BuildModelGbufRange(buffer, bucket_index, world_size, data_parallel_rank)]

AllBucketsDivisible(buffer, world_size) ==
    \A bucket_index \in 1 .. Len(buffer.buckets) :
        BucketSizeDivisible(buffer.buckets[bucket_index], world_size)

\* The locals of one _build_model_gbuf_range call that the result is built from.
RangeLocals(buffer, world_size, data_parallel_rank) ==
    [bucket_index \in 1 .. Len(buffer.buckets) |->
        [gbuf_world_all_ranges |->
            GbufWorldAllRanges(buffer.buckets[bucket_index], world_size),
         gbuf_world_range |->
            LocalGbufWorldRange(buffer.buckets[bucket_index], world_size,
                                data_parallel_rank)]]

(***************************************************************************)
(* Inputs of the range-building calls: one buffer holding one bucket of    *)
(* any size at any offset, and a param_index_map of one or two parameters  *)
(* placed anywhere in the buffer's index space (the bucket under           *)
(* construction need not be the one that holds them).                      *)
(***************************************************************************)
MaxIndex == MaxOffset + MaxNumel + 1

WorldIndexes(maxIndex) ==
    {[start |-> s, end |-> e] : s \in 0 .. maxIndex, e \in 1 .. maxIndex}

ParamIndexMaps(maxIndex) ==
    LET W1 == {w \in WorldIndexes(maxIndex) : w.start < w.end}
    IN  {<<w>> : w \in W1}
        \cup {m \in {<<w1, w2>> : w1 \in W1, w2 \in W1} : m[2].start >= m[1].end}

Bucket(offset, numel, numel_unpadded) ==
    [offset |-> offset, numel |-> numel, numel_unpadded |-> numel_unpadded]

\* A _ParamAndGradBuffer as this file reads it: buckets, param_index_map,
\* numel_unpadded and the tensor type of its parameters.
Buffer(buckets, param_index_map, numel_unpadded, type) ==
    [buckets |-> buckets, param_index_map |-> param_index_map,
     numel_unpadded |-> numel_unpadded, type |-> type]

\* The example of the design document: bucket of 100 elements at offset 0,
\* four ranks, a parameter recorded at [90,110).
StraddlingExample ==
    /\ data_parallel_world_size = 4
    /\ buffers = <<Buffer(<<Bucket(0, 100, 100)>>, <<[start |-> 90, end |-> 110]>>,
                           100, "torch.cuda.FloatTensor")>>

InitRangeInputs ==
    \/ /\ data_parallel_world_size \in 1 .. MaxWorldSize
       /\ \E offset \in 0 .. MaxOffset, numel \in 1 .. MaxNumel,
             param_index_map \in ParamIndexMaps(MaxIndex) :
            buffers = <<Buffer(<<Bucket(offset, numel, numel)>>, param_index_map,
                               numel, "torch.cuda.FloatTensor")>>
    \/ StraddlingExample

InitRange ==
    /\ InitRangeInputs
    /\ pc = [r \in Ranks |-> "start"]
    /\ range_locals = [r \in Ranks |-> <<>>]
    /\ gbuf_ranges = [r \in Ranks |-> <<>>]
    /\ param_groups = <<>>
    /\ model_param_group_index_map = [r \in Ranks |-> <<>>]
    /\ optimizer_param_groups = [r \in Ranks |-> <<>>]
    /\ tensors = [r \in Ranks |-> <<>>]
    /\ step = [r \in Ranks |-> 0]
    /\ in_collective = [r \in Ranks |-> FALSE]
    /\ local_shards = [r \in Ranks |-> <<>>]
    /\ state_dict = <<>>
    /\ with_megatron_fsdp_code_path = FALSE
    /\ sharding_type = "fully_sharded_model_space"
    /\ model_sharded_state_dict = <<>>
    /\ opt_group_ranges = [r \in Ranks |-> <<>>]
    /\ shard_groups = [r \in Ranks |-> <<>>]
    /\ state = [r \in Ranks |-> <<>>]
    /\ param_state = [r \in Ranks |-> <<>>]
    /\ checkpoint_sharding_type = [r \in Ranks |-> "none"]
    /\ loader = [r \in Ranks |-> "none"]
    /\ raised = [r \in Ranks |-> <<>>]

\* Rank r runs _build_gbuf_range_map on every buffer (__init__, "Model grad
\* buffer ranges"); the size assertion of _build_model_gbuf_range aborts it.
BuildGbufRanges(r) ==
    /\ pc[r] = "start"
    /\ IF \A gbuf_idx \in 1 .. Len(buffers) :
              AllBucketsDivisible(buffers[gbuf_idx], data_parallel_world_size)
       THEN /\ gbuf_ranges' = [gbuf_ranges EXCEPT ![r] =
                    [gbuf_idx \in 1 .. Len(buffers) |->
                        BuildGbufRangeMap(buffers[gbuf_idx], data_parallel_world_size, r)]]
            /\ range_locals' = [range_locals EXCEPT ![r] =
                    [gbuf_idx \in 1 .. Len(buffers) |->
                        RangeLocals(buffers[gbuf_idx], data_parallel_world_size, r)]]
            /\ pc' = [pc EXCEPT ![r] = "ranges_built"]
       ELSE /\ pc' = [pc EXCEPT ![r] = "AssertionError"]
            /\ UNCHANGED <<gbuf_ranges, range_locals>>
    /\ UNCHANGED <<layout_vars, optimizer_vars, checkpoint_vars, raised>>

NextRange == \E r \in Ranks : BuildGbufRanges(r)

SpecRange == InitRange /\ [][NextRange]_vars

(***************************************************************************)
(* Properties of the range-building calls (checked under SpecRange).       *)
(***************************************************************************)
Built(r) == pc[r] = "ranges_built"

AllBuilt == \A r \in Ranks : Built(r)

BucketPlaces == {<<gbuf_idx, bucket_index>> :
                    gbuf_idx \in DOMAIN buffers, bucket_index \in 1 .. 1}

TheBucket == buffers[1].buckets[1]

ParamIds == DOMAIN buffers[1].param_index_map

WorldIndexesOf(param) == buffers[1].param_index_map[param]

ParamMapOf(r) == gbuf_ranges[r][1][1].param_map

ShardOf(r) == range_locals[r][1][1].gbuf_world_range

Owners(param) == {r \in Ranks : param \in DOMAIN ParamMapOf(r)}

InsideBucket(param) ==
    /\ TheBucket.offset <= WorldIndexesOf(param).start
    /\ WorldIndexesOf(param).end <= TheBucket.offset + TheBucket.numel

\* A shard boundary (the end of a shard that is not the last) lies strictly
\* inside the parameter.
StraddlesShardBoundary(param) ==
    \E r \in Ranks :
        /\ r < data_parallel_world_size - 1
        /\ WorldIndexesOf(param).start < ShardOf(r).end
        /\ ShardOf(r).end < WorldIndexesOf(param).end

RECURSIVE SumOf(_)
SumOf(f) ==
    IF DOMAIN f = {} THEN 0
    ELSE LET x == CHOOSE y \in DOMAIN f : TRUE
         IN  f[x] + SumOf([y \in DOMAIN f \ {x} |-> f[y]])

\* C1: for every bucket size S divisible by the world size W and every
\* offset O, the W shard ranges computed by _build_model_gbuf_range are
\* pairwise disjoint and their union is exactly [O, O+S).
C1_ShardsPartitionBucket ==
    \A r \in Ranks : Built(r) =>
        LET all == range_locals[r][1][1].gbuf_world_all_ranges
        IN  /\ DOMAIN all = Ranks
            /\ \A q \in Ranks : all[q].start <= all[q].end
            /\ \A q1, q2 \in Ranks :
                    q1 # q2 => Indexes(all[q1]) \cap Indexes(all[q2]) = {}
            /\ UNION {Indexes(all[q]) : q \in Ranks}
                    = TheBucket.offset .. (TheBucket.offset + TheBucket.numel - 1)

C1_Witness ==
    \E r \in Ranks :
        /\ Built(r)
        /\ data_parallel_world_size = 3
        /\ TheBucket.offset = 1
        /\ TheBucket.numel = 6

\* C2: with maxShardSize = S / W, the range computed for rank r is
\* [O + r*maxShardSize, O + min(S, (r+1)*maxShardSize)) for every r in
\* 0..W-1, and the local rank's shard is the entry at index
\* data_parallel_rank.
C2_RankRangeFormula ==
    \A r \in Ranks : Built(r) =>
        LET all == range_locals[r][1][1].gbuf_world_all_ranges
            maxShardSize == TheBucket.numel \div data_parallel_world_size
        IN  /\ \A q \in Ranks :
                /\ all[q].start = TheBucket.offset + q * maxShardSize
                /\ all[q].end = TheBucket.offset
                                    + Min(TheBucket.numel, (q + 1) * maxShardSize)
                /\ all[q].size = all[q].end - all[q].start
            /\ ShardOf(r) = all[r]

C2_Witness ==
    \E r \in Ranks :
        /\ Built(r)
        /\ r = 2
        /\ data_parallel_world_size = 4
        /\ TheBucket.numel = 4
        /\ ShardOf(r) = Range(TheBucket.offset + 2, TheBucket.offset + 3)

\* C3: _build_model_gbuf_range fails (assertion error) whenever the bucket
\* size is not an exact multiple of the world size, and in that case
\* produces no shard ranges and no param range map.
C3_NotDivisibleFails ==
    \A r \in Ranks : pc[r] # "start" =>
        /\ (TheBucket.numel % data_parallel_world_size # 0
                <=> pc[r] = "AssertionError")
        /\ pc[r] = "AssertionError" =>
                /\ gbuf_ranges[r] = <<>>
                /\ range_locals[r] = <<>>

C3_Witness ==
    \E r \in Ranks :
        /\ pc[r] = "AssertionError"
        /\ TheBucket.numel = 5
        /\ data_parallel_world_size = 2

\* C4: for every parameter with world range [ws,we) whose intersection
\* [ls,le) with the local shard [shardStart, shardEnd) is non-empty, the map
\* records gbuf_world = [ls,le), gbuf_local = [ls-shardStart, le-shardStart),
\* gbuf_world_in_bucket = [ls-bucketOffset, le-bucketOffset) and
\* param = [sub, sub+(le-ls)) with sub = max(0, shardStart-ws).
C4_FourFrames ==
    \A r \in Ranks : Built(r) =>
        \A param \in ParamIds :
            LET ws == WorldIndexesOf(param).start
                we == WorldIndexesOf(param).end
                ls == Max(ws, ShardOf(r).start)
                le == Min(we, ShardOf(r).end)
                sub == Max(0, ShardOf(r).start - ws)
            IN  ls < le =>
                    /\ param \in DOMAIN ParamMapOf(r)
                    /\ ParamMapOf(r)[param] =
                        [gbuf_world |-> Range(ls, le),
                         gbuf_local |-> Range(ls - ShardOf(r).start,
                                              le - ShardOf(r).start),
                         gbuf_world_in_bucket |-> Range(ls - TheBucket.offset,
                                                        le - TheBucket.offset),
                         param |-> Range(sub, sub + (le - ls))]

C4_Witness ==
    \E r \in Ranks : \E param \in ParamIds :
        /\ Built(r)
        /\ r >= 1
        /\ TheBucket.offset = 1
        /\ param \in DOMAIN ParamMapOf(r)
        /\ WorldIndexesOf(param).start < ShardOf(r).start
        /\ WorldIndexesOf(param).end < ShardOf(r).end

\* C5: every entry of every param range map satisfies param.size ==
\* gbuf_local.size == gbuf_world_in_bucket.size == gbuf_world.size, and that
\* common size is strictly positive.
C5_OneLength ==
    \A r \in Ranks : Built(r) =>
        \A param \in DOMAIN ParamMapOf(r) :
            LET e == ParamMapOf(r)[param]
            IN  /\ e.param.size = e.gbuf_local.size
                /\ e.gbuf_local.size = e.gbuf_world_in_bucket.size
                /\ e.gbuf_world_in_bucket.size = e.gbuf_world.size
                /\ e.gbuf_world.size > 0
                /\ \A f \in {e.param, e.gbuf_local, e.gbuf_world_in_bucket,
                             e.gbuf_world} : f.end - f.start = f.size

C5_Witness ==
    \E r \in Ranks : \E param \in ParamIds :
        /\ Built(r)
        /\ param \in DOMAIN ParamMapOf(r)
        /\ ParamMapOf(r)[param].param.size = 2
        /\ ParamMapOf(r)[param].param.start = 1
        /\ ParamMapOf(r)[param].gbuf_local.start = 0

\* C6: a parameter has an entry in a rank's param range map if and only if
\* its world range [ws,we) has a non-empty intersection with that rank's
\* shard range.
C6_EntryIffIntersects ==
    \A r \in Ranks : Built(r) =>
        /\ DOMAIN ParamMapOf(r) \subseteq ParamIds
        /\ \A param \in ParamIds :
                param \in DOMAIN ParamMapOf(r)
                    <=> Indexes(WorldIndexesOf(param)) \cap Indexes(ShardOf(r)) # {}

C6_Witness ==
    \E r \in Ranks :
        /\ Built(r)
        /\ Cardinality(ParamIds) = 2
        /\ DOMAIN ParamMapOf(r) = {2}
        /\ WorldIndexesOf(1).end <= ShardOf(r).start

\* C7: for a parameter lying entirely inside one bucket, the 'param' ranges
\* recorded by the ranks whose shards it intersects are pairwise
\* non-overlapping, adjacent in rank order, and their union is exactly
\* [0, we-ws).
C7_WithinParamPartition ==
    AllBuilt =>
        \A param \in ParamIds : InsideBucket(param) =>
            LET sub(r) == ParamMapOf(r)[param].param
                numel == WorldIndexesOf(param).end - WorldIndexesOf(param).start
            IN  /\ \A r1, r2 \in Owners(param) :
                        r1 # r2 => Indexes(sub(r1)) \cap Indexes(sub(r2)) = {}
                /\ \A r1, r2 \in Owners(param) :
                        (r1 < r2 /\ ~ \E r3 \in Owners(param) : r1 < r3 /\ r3 < r2)
                            => sub(r1).end = sub(r2).start
                /\ UNION {Indexes(sub(r)) : r \in Owners(param)} = 0 .. (numel - 1)

C7_Witness ==
    /\ AllBuilt
    /\ \E param \in ParamIds :
        /\ InsideBucket(param)
        /\ Cardinality(Owners(param)) = 3
        /\ \E r \in Owners(param) : ParamMapOf(r)[param].gbuf_local.start > 0

C9_StraddlingAsStated ==
    (StraddlingExample /\ AllBuilt) =>
        /\ 1 \in DOMAIN ParamMapOf(3)
        /\ ParamMapOf(3)[1].param = Range(15, 25)
        /\ ParamMapOf(3)[1].gbuf_local = Range(15, 25)
        /\ \A r \in 0 .. 2 : 1 \notin DOMAIN ParamMapOf(r)

\* C9 as amended: in that example rank 3 (shard [75,100)) receives
\* 'param' = [0,10) of length 10 and 'gbuf_local' = [15,25); ranks 0, 1 and 2
\* receive no entry.
C9_StraddlingExample ==
    (StraddlingExample /\ AllBuilt) =>
        /\ ShardOf(3) = Range(75, 100)
        /\ 1 \in DOMAIN ParamMapOf(3)
        /\ ParamMapOf(3)[1].param = Range(0, 10)
        /\ ParamMapOf(3)[1].param.size = 10
        /\ ParamMapOf(3)[1].gbuf_local = Range(15, 25)
        /\ \A r \in 0 .. 2 : 1 \notin DOMAIN ParamMapOf(r)

C9_Witness == StraddlingExample /\ AllBuilt /\ 1 \in DOMAIN ParamMapOf(3)

(***************************************************************************)
(* The whole optimizer: construction, get_parameter_state_dp_zero and      *)
(* load_parameter_state_from_dp_zero on every rank of the data-parallel    *)
(* group.                                                                  *)
(*                                                                         *)
(* Bounds of the layouts: the group has at most CkptMaxWorldSize ranks; a  *)
(* bucket's shard has at most MaxShardNumel elements and the bucket at     *)
(* most MaxPadding elements of trailing padding; there are at most         *)
(* MaxBuckets buckets, in one buffer or one per buffer, their shards       *)
(* totalling at most MaxShardNumel + 1 elements; a bucket holds one or two *)
(* parameters, the layout at most MaxBuckets + 1.                          *)
(***************************************************************************)
CkptMaxWorldSize == 3
MaxShardNumel == 2
MaxPadding == 1
MaxBuckets == 2

ParamTypes == {"torch.cuda.FloatTensor", "torch.cuda.HalfTensor"}

Keys == <<"param", "exp_avg", "exp_avg_sq">>

RECURSIVE SortedSeq(_)
SortedSeq(S) ==
    IF S = {} THEN <<>>
    ELSE LET m == CHOOSE x \in S : \A y \in S : x <= y
         IN  <<m>> \o SortedSeq(S \ {m})

RECURSIVE Concat(_)
Concat(seqs) == IF seqs = <<>> THEN <<>> ELSE Head(seqs) \o Concat(Tail(seqs))

IndexOf(seq, x) == CHOOSE i \in 1 .. Len(seq) : seq[i] = x

\* The parameters of one bucket, relative to the bucket's start: the first
\* begins the bucket, the last ends at numel_unpadded, and alignment padding
\* may separate two parameters.
ParamPlacements(numel_unpadded) ==
    {<<[start |-> 0, end |-> numel_unpadded]>>}
    \cup {<<[start |-> 0, end |-> a], [start |-> b, end |-> numel_unpadded]>> :
            a \in 1 .. (numel_unpadded - 1), b \in 1 .. (numel_unpadded - 1)}

BucketShapes(world_size) ==
    UNION {UNION {{[shard |-> shard, numel |-> shard * world_size,
                    numel_unpadded |-> numel_unpadded, params |-> params] :
                        params \in {pl \in ParamPlacements(numel_unpadded) :
                                        Len(pl) = 1 \/ pl[1].end <= pl[2].start}} :
                  numel_unpadded \in
                      Max(1, shard * world_size - MaxPadding) .. (shard * world_size)} :
           shard \in 1 .. MaxShardNumel}

RECURSIVE BucketShapeSeqs(_, _, _, _)
BucketShapeSeqs(world_size, count, shard_left, params_left) ==
    IF count = 0 THEN {<<>>}
    ELSE UNION {{<<shape>> \o rest :
                    rest \in BucketShapeSeqs(world_size, count - 1,
                                             shard_left - shape.shard,
                                             params_left - Len(shape.params))} :
                shape \in {sh \in BucketShapes(world_size) :
                              /\ sh.shard <= shard_left - (count - 1)
                              /\ Len(sh.params) <= params_left - (count - 1)}}

RECURSIVE SumNumel(_, _)
SumNumel(shapes, n) == IF n = 0 THEN 0 ELSE shapes[n].numel + SumNumel(shapes, n - 1)

RECURSIVE SumNumelUnpadded(_, _)
SumNumelUnpadded(buckets, n) ==
    IF n = 0 THEN 0 ELSE buckets[n].numel_unpadded + SumNumelUnpadded(buckets, n - 1)

\* The buffer that holds the buckets of the given shapes back to back.
BufferOfShapes(shapes, type) ==
    Buffer([b \in 1 .. Len(shapes) |->
                Bucket(SumNumel(shapes, b - 1), shapes[b].numel, shapes[b].numel_unpadded)],
           Concat([b \in 1 .. Len(shapes) |->
                [i \in 1 .. Len(shapes[b].params) |->
                    [start |-> shapes[b].params[i].start + SumNumel(shapes, b - 1),
                     end |-> shapes[b].params[i].end + SumNumel(shapes, b - 1)]]]),
           SumNumelUnpadded(shapes, Len(shapes)),
           type)

BufferLayouts(world_size) ==
    LET seqs == UNION {BucketShapeSeqs(world_size, count, MaxShardNumel + 1,
                                        MaxBuckets + 1) : count \in 1 .. MaxBuckets}
    IN  {<<BufferOfShapes(shapes, type)>> : shapes \in seqs, type \in ParamTypes}
        \cup {[g \in 1 .. Len(shapes) |-> BufferOfShapes(<<shapes[g]>>, types[g])] :
                shapes \in {sq \in seqs : Len(sq) > 1
                                /\ \A b \in 1 .. Len(sq) : Len(sq[b].params) = 1},
                types \in [1 .. MaxBuckets -> ParamTypes]}

\* Every parameter of every buffer, in buffer order then param_index_map order.
AllParams(bufs) ==
    Concat([g \in 1 .. Len(bufs) |->
                [i \in 1 .. Len(bufs[g].param_index_map) |-> <<g, i>>]])

\* The optimizer's two param groups (as for weight decay / no weight decay).
ParamGroupings(bufs) ==
    LET all == AllParams(bufs)
        Odd(i) == i % 2 = 1
        odd == [i \in 1 .. ((Len(all) + 1) \div 2) |-> all[2 * i - 1]]
        even == [i \in 1 .. (Len(all) \div 2) |-> all[2 * i]]
    IN  {<< <<>>, all>>, <<odd, even>>}

InitLayout ==
    /\ data_parallel_world_size \in 1 .. CkptMaxWorldSize
    /\ buffers \in BufferLayouts(data_parallel_world_size)
    /\ param_groups \in ParamGroupings(buffers)
    /\ with_megatron_fsdp_code_path = FALSE
    /\ sharding_type = "dp_zero_gather_scatter"
    /\ model_sharded_state_dict = <<>>

\* No rank has run __init__ yet.
NothingBuilt ==
    /\ pc = [r \in Ranks |-> "start"]
    /\ range_locals = [r \in Ranks |-> <<>>]
    /\ gbuf_ranges = [r \in Ranks |-> <<>>]
    /\ model_param_group_index_map = [r \in Ranks |-> <<>>]
    /\ optimizer_param_groups = [r \in Ranks |-> <<>>]
    /\ tensors = [r \in Ranks |-> <<>>]
    /\ step = [r \in Ranks |-> 0]
    /\ in_collective = [r \in Ranks |-> FALSE]
    /\ local_shards = [r \in Ranks |-> <<>>]
    /\ state_dict = <<>>
    /\ opt_group_ranges = [r \in Ranks |-> <<>>]
    /\ shard_groups = [r \in Ranks |-> <<>>]
    /\ state = [r \in Ranks |-> <<>>]
    /\ param_state = [r \in Ranks |-> <<>>]
    /\ checkpoint_sharding_type = [r \in Ranks |-> "none"]
    /\ loader = [r \in Ranks |-> "none"]
    /\ raised = [r \in Ranks |-> <<>>]

Init == InitLayout /\ NothingBuilt

(***************************************************************************)
(* DistributedOptimizer._build_optimizer_group_ranges                      *)
(***************************************************************************)
\* The parameters of a rank's gbuf_ranges in the order the loops visit them.
LocalParamsInOrder(ranges) ==
    Concat([gbuf_idx \in 1 .. Len(ranges) |->
        Concat([bucket_index \in 1 .. Len(ranges[gbuf_idx]) |->
            LET order == SortedSeq(DOMAIN ranges[gbuf_idx][bucket_index].param_map)
            IN  [i \in 1 .. Len(order) |-> <<gbuf_idx, order[i]>>]])])

WorldParamGroupMap(groups, param) ==
    CHOOSE group_index \in 1 .. Len(groups) :
        /\ \E i \in 1 .. Len(groups[group_index]) : groups[group_index][i] = param
        /\ \A later \in (group_index + 1) .. Len(groups) :
                \A i \in 1 .. Len(groups[later]) : groups[later][i] # param

GroupRanges(groups, ranges) ==
    [group_index \in 1 .. Len(groups) |->
        LET InGroup(param) == WorldParamGroupMap(groups, param) = group_index
        IN  SelectSeq(LocalParamsInOrder(ranges), InGroup)]

\* local_param_group_map: (group_index, order within the group), the order
\* counted from 0 as len(group_range["params"]) - 1.
LocalParamGroupMap(groups, ranges) ==
    LET local == LocalParamsInOrder(ranges)
    IN  [param \in {local[i] : i \in 1 .. Len(local)} |->
            LET group_index == WorldParamGroupMap(groups, param)
            IN  <<group_index, IndexOf(GroupRanges(groups, ranges)[group_index], param) - 1>>]

\* Mutant: the zero-size group ranges are squeezed out.
OptGroupRangesSqueezed(groups, ranges) ==
    LET NonEmpty(group_range) == group_range.params # <<>>
    IN  SelectSeq([group_index \in 1 .. Len(groups) |->
                        [params |-> GroupRanges(groups, ranges)[group_index],
                         orig_group |-> group_index,
                         orig_group_idx |-> group_index]],
                  NonEmpty)

\* group_ranges as returned: "params" are the rank's parameters of the group;
\* "orig_group" and "orig_group_idx" are both bound to
\* param_groups[group_index], a group being named by its index in param_groups.
OptGroupRanges(groups, ranges) ==
    [group_index \in 1 .. Len(groups) |->
        [params |-> GroupRanges(groups, ranges)[group_index],
         orig_group |-> group_index,
         orig_group_idx |-> group_index]]

(***************************************************************************)
(* DistributedOptimizer._build_model_param_gbuf_map                        *)
(***************************************************************************)
ModelParamGbufMap(ranges, param) ==
    CHOOSE place \in {<<gbuf_idx, bucket_index>> :
                        gbuf_idx \in 1 .. Len(ranges), bucket_index \in 1 .. MaxBuckets} :
        /\ place[1] = param[1]
        /\ place[2] <= Len(ranges[place[1]])
        /\ param[2] \in DOMAIN ranges[place[1]][place[2]].param_map

\* _get_model_param_range_map
ModelParamRangeMap(ranges, param) ==
    LET place == ModelParamGbufMap(ranges, param)
    IN  ranges[place[1]][place[2]].param_map[param[2]]

(***************************************************************************)
(* DistributedOptimizer._build_model_and_main_param_groups                 *)
(***************************************************************************)
\* Mutant: BFloat16 is not taken for a float16 type.
IsFloat16HalfOnly(bufs, param) == bufs[param[1]].type = "torch.cuda.HalfTensor"

IsFloat16(bufs, param) ==
    bufs[param[1]].type \in {"torch.cuda.HalfTensor", "torch.cuda.BFloat16Tensor"}

IsFloat32(bufs, param) == bufs[param[1]].type = "torch.cuda.FloatTensor"

\* group_range["orig_group"]["params"]: the fp32 shards, then the fp32 copies
\* of the float16 shards.  A main param is named by its model param.
OrigGroupParams(bufs, group_range) ==
    LET F32(param) == IsFloat32(bufs, param)
        F16(param) == IsFloat16(bufs, param)
    IN  SelectSeq(group_range, F32) \o SelectSeq(group_range, F16)

\* The value held by element `index` of a parameter's tensor `key`.
ValueOf(key, param, index) == <<key, param[1], param[2], index>>

\* The main shard of a parameter and its optimizer state, as held when the
\* checkpoint is taken.
ShardTensors(ranges, param) ==
    LET param_range == ModelParamRangeMap(ranges, param).param
    IN  [key \in {"param", "exp_avg", "exp_avg_sq"} |->
            [i \in 1 .. param_range.size |-> ValueOf(key, param, param_range.start + i - 1)]]

MainTensors(groups, ranges) ==
    [param \in DOMAIN LocalParamGroupMap(groups, ranges) |-> ShardTensors(ranges, param)]

\* The parameters the loops reach whose type is none of the three.
UnsupportedParams(bufs, group_ranges) ==
    LET Unsupported(param) == ~ IsFloat16(bufs, param) /\ ~ IsFloat32(bufs, param)
    IN  SelectSeq(Concat([group_index \in 1 .. Len(group_ranges) |->
                              group_ranges[group_index].params]),
                  Unsupported)

\* model_param.view(-1)[param_range.start : param_range.end]: a view of the
\* model parameter's own storage.
ShardModelParam(bufs, ranges, param) ==
    [data |-> "model_param", param |-> param,
     range |-> ModelParamRangeMap(ranges, param).param,
     type |-> bufs[param[1]].type]

\* shard_model_param.clone().float(): new storage, float32.
ShardMainParam(bufs, ranges, param) ==
    [data |-> "clone", param |-> param,
     range |-> ModelParamRangeMap(ranges, param).param,
     type |-> "torch.cuda.FloatTensor"]

\* The five lists the method returns, one entry per group range.
ShardGroups(bufs, ranges, group_ranges) ==
    LET F32(param) == IsFloat32(bufs, param)
        F16(param) == IsFloat16(bufs, param)
        Of(group_index, Test(_)) == SelectSeq(group_ranges[group_index].params, Test)
        Views(params) ==
            [i \in 1 .. Len(params) |-> ShardModelParam(bufs, ranges, params[i])]
        Clones(params) ==
            [i \in 1 .. Len(params) |-> ShardMainParam(bufs, ranges, params[i])]
    IN  [model_float16_groups |->
            [group_index \in 1 .. Len(group_ranges) |-> Of(group_index, F16)],
         model_fp32_groups |->
            [group_index \in 1 .. Len(group_ranges) |-> Of(group_index, F32)],
         shard_float16_groups |->
            [group_index \in 1 .. Len(group_ranges) |-> Views(Of(group_index, F16))],
         shard_fp32_groups |->
            [group_index \in 1 .. Len(group_ranges) |-> Views(Of(group_index, F32))],
         shard_fp32_from_float16_groups |->
            [group_index \in 1 .. Len(group_ranges) |-> Clones(Of(group_index, F16))]]

\* __init__ on rank r.  On the Megatron-FSDP code path none of the range and
\* group structures is built.
Construct(r) ==
    /\ pc[r] = "start"
    /\ IF with_megatron_fsdp_code_path
       THEN /\ pc' = [pc EXCEPT ![r] = "ready"]
            /\ UNCHANGED <<range_vars, optimizer_vars, raised>>
       ELSE IF ~ \A gbuf_idx \in 1 .. Len(buffers) :
                    AllBucketsDivisible(buffers[gbuf_idx], data_parallel_world_size)
       THEN /\ pc' = [pc EXCEPT ![r] = "AssertionError"]
            /\ UNCHANGED <<range_vars, optimizer_vars, raised>>
       ELSE LET ranges == [gbuf_idx \in 1 .. Len(buffers) |->
                    BuildGbufRangeMap(buffers[gbuf_idx], data_parallel_world_size, r)]
                group_ranges == OptGroupRanges(param_groups, ranges)
                unsupported == UnsupportedParams(buffers, group_ranges)
            IN  IF unsupported # <<>>
                THEN /\ pc' = [pc EXCEPT ![r] = "TypeError"]
                     /\ raised' = [raised EXCEPT ![r] =
                            <<"TypeError", buffers[Head(unsupported)[1]].type>>]
                     /\ UNCHANGED <<range_vars, optimizer_vars>>
                ELSE /\ gbuf_ranges' = [gbuf_ranges EXCEPT ![r] = ranges]
                     /\ range_locals' = [range_locals EXCEPT ![r] =
                            [gbuf_idx \in 1 .. Len(buffers) |->
                                RangeLocals(buffers[gbuf_idx], data_parallel_world_size, r)]]
                     /\ model_param_group_index_map' =
                            [model_param_group_index_map EXCEPT ![r] =
                                LocalParamGroupMap(param_groups, ranges)]
                     /\ opt_group_ranges' = [opt_group_ranges EXCEPT ![r] = group_ranges]
                     /\ shard_groups' = [shard_groups EXCEPT ![r] =
                            ShardGroups(buffers, ranges, group_ranges)]
                     /\ optimizer_param_groups' = [optimizer_param_groups EXCEPT ![r] =
                            [i \in 1 .. Len(group_ranges) |->
                                OrigGroupParams(buffers, group_ranges[i].params)]]
                     /\ tensors' = [tensors EXCEPT ![r] = MainTensors(param_groups, ranges)]
                     /\ pc' = [pc EXCEPT ![r] = "ready"]
                     /\ UNCHANGED raised
    /\ UNCHANGED <<layout_vars, checkpoint_vars>>

(***************************************************************************)
(* Tensors are sequences of values; tensor[start:end] is Slice.            *)
(***************************************************************************)
Zero == <<"zero">>

\* What torch.empty leaves in a freshly allocated tensor.
Uninitialized == <<"uninitialized">>

Zeros(numel) == [i \in 1 .. numel |-> Zero]

Slice(tensor, start, end) == SubSeq(tensor, start + 1, Min(end, Len(tensor)))

\* dst.copy_(src) is defined when src has dst's size or broadcasts to it.
CanCopy(numel, src) == Len(src) = numel \/ Len(src) = 1

Broadcast(src, numel) ==
    IF Len(src) = numel THEN src ELSE [i \in 1 .. numel |-> src[1]]

\* tensor[start : start + len(src)].copy_(src)
CopyIntoSlice(tensor, start, src) ==
    [i \in 1 .. Len(tensor) |->
        IF start < i /\ i <= start + Len(src) THEN src[i - start] ELSE tensor[i]]

\* Mutant: the padding is put in front of the data.
PadFront(tensor, padding) == [i \in 1 .. padding |-> <<"zero">>] \o tensor

\* torch.nn.functional.pad(tensor, (0, padding))
PadBack(tensor, padding) == tensor \o Zeros(padding)

\* self.optimizer.param_groups[group_index]["params"][group_order]
MainParamOf(r, param) ==
    LET index == model_param_group_index_map[r][param]
    IN  optimizer_param_groups[r][index[1]][index[2] + 1]

GbufLocalNumel(gbuf_idx, bucket_idx) ==
    buffers[gbuf_idx].buckets[bucket_idx].numel \div data_parallel_world_size

\* Mutant: a bucket's place in the world tensor is its padded offset in the
\* buffer.
OffsetInWorldTensorsPadded(gbuf_idx, bucket_idx) ==
    buffers[gbuf_idx].buckets[bucket_idx].offset - buffers[gbuf_idx].buckets[1].offset

\* offset_in_world_tensors when the loop reaches the bucket.
OffsetInWorldTensors(gbuf_idx, bucket_idx) ==
    SumNumelUnpadded(buffers[gbuf_idx].buckets, bucket_idx - 1)

(***************************************************************************)
(* DistributedOptimizer.get_parameter_state_dp_zero                        *)
(***************************************************************************)
\* Mutant: a rank passes over the buckets it owns no parameter of.
CollectivesOfSaveOnOwned(r) ==
    LET Owned(c) == DOMAIN gbuf_ranges[r][c.gbuf_idx][c.bucket_idx].param_map # {}
    IN  SelectSeq(
            Concat([gbuf_idx \in 1 .. Len(gbuf_ranges[r]) |->
                Concat([bucket_idx \in 1 .. Len(gbuf_ranges[r][gbuf_idx]) |->
                    [k \in 1 .. Len(Keys) |->
                        [gbuf_idx |-> gbuf_idx, bucket_idx |-> bucket_idx,
                         key |-> Keys[k]]]])]),
            Owned)

\* The gather collectives rank r issues, in the order of its loops over
\* self.gbuf_ranges, the buckets of each buffer and the keys.
CollectivesOfSaveOn(r) ==
    Concat([gbuf_idx \in 1 .. Len(gbuf_ranges[r]) |->
        Concat([bucket_idx \in 1 .. Len(gbuf_ranges[r][gbuf_idx]) |->
            [k \in 1 .. Len(Keys) |->
                [gbuf_idx |-> gbuf_idx, bucket_idx |-> bucket_idx, key |-> Keys[k]]]])])

\* The gather collectives as DP rank 0, which receives, issues them.
CollectivesOfSave == CollectivesOfSaveOn(0)

\* "Build contiguous DP rank shards": every copy_ has matching sizes.
LocalShardsCopyable(r, gbuf_idx, bucket_idx) ==
    LET param_map == gbuf_ranges[r][gbuf_idx][bucket_idx].param_map
    IN  \A p \in DOMAIN param_map : \A k \in 1 .. Len(Keys) :
            CanCopy(param_map[p].gbuf_local.size,
                    tensors[r][MainParamOf(r, <<gbuf_idx, p>>)][Keys[k]])

\* "Build contiguous DP rank shards": the shards after the loop over the
\* bucket's param_map (a later parameter overwrites an earlier one).
LocalShards(r, gbuf_idx, bucket_idx) ==
    LET param_map == gbuf_ranges[r][gbuf_idx][bucket_idx].param_map
        Writers(i) == {p \in DOMAIN param_map :
                          /\ param_map[p].gbuf_local.start < i
                          /\ i <= param_map[p].gbuf_local.end}
    IN  [key \in {"param", "exp_avg", "exp_avg_sq"} |->
            [i \in 1 .. GbufLocalNumel(gbuf_idx, bucket_idx) |->
                IF Writers(i) = {} THEN Zero
                ELSE LET p == CHOOSE w \in Writers(i) : \A v \in Writers(i) : v <= w
                         src == Broadcast(tensors[r][MainParamOf(r, <<gbuf_idx, p>>)][key],
                                          param_map[p].gbuf_local.size)
                     IN  src[i - param_map[p].gbuf_local.start]]]

\* world_tensors as DP rank 0 creates them for a buffer.
NewWorldTensors(gbuf_idx) ==
    [param |-> Zeros(buffers[gbuf_idx].numel_unpadded),
     exp_avg |-> Zeros(buffers[gbuf_idx].numel_unpadded),
     exp_avg_sq |-> Zeros(buffers[gbuf_idx].numel_unpadded),
     numel_unpadded |-> buffers[gbuf_idx].numel_unpadded]

\* world_tensors of a buffer before its first bucket: the zero tensors on DP
\* rank 0, an empty dict on every other rank.
WorldTensorsOf(r, gbuf_idx) == IF r = 0 THEN NewWorldTensors(gbuf_idx) ELSE <<>>

\* torch.cat(recv_tensors) on DP rank 0.
RecvTensorsConcatenated(key) ==
    Concat([q \in 1 .. data_parallel_world_size |-> local_shards[q - 1][key]])

\* "Copy this bucket's collected all-gather tensors into the right place."
GatheredWorldTensor(world_tensor, gbuf_idx, bucket_idx, key) ==
    CopyIntoSlice(world_tensor, OffsetInWorldTensors(gbuf_idx, bucket_idx),
                  Slice(RecvTensorsConcatenated(key), 0,
                        buffers[gbuf_idx].buckets[bucket_idx].numel_unpadded))

\* Rank r runs up to its next torch.distributed.gather and enters it.
SaveArrive(r) ==
    /\ pc[r] \in {"ready", "save"}
    /\ ~ in_collective[r]
    /\ LET n == IF pc[r] = "ready" THEN 1 ELSE step[r]
           c == CollectivesOfSaveOn(r)[n]
       IN  IF c.key = "param" /\ ~ LocalShardsCopyable(r, c.gbuf_idx, c.bucket_idx)
           THEN /\ pc' = [pc EXCEPT ![r] = "RuntimeError"]
                /\ UNCHANGED checkpoint_vars
           ELSE /\ pc' = [pc EXCEPT ![r] = "save"]
                /\ step' = [step EXCEPT ![r] = n]
                /\ in_collective' = [in_collective EXCEPT ![r] = TRUE]
                /\ local_shards' =
                        IF c.key = "param"
                        THEN [local_shards EXCEPT ![r] =
                                    LocalShards(r, c.gbuf_idx, c.bucket_idx)]
                        ELSE local_shards
                /\ state' =
                        IF c.key = "param" /\ c.bucket_idx = 1
                        THEN [state EXCEPT ![r] =
                                (IF c.gbuf_idx = 1 THEN <<>> ELSE @)
                                    \o <<WorldTensorsOf(r, c.gbuf_idx)>>]
                        ELSE state
                /\ UNCHANGED <<state_dict, param_state, checkpoint_sharding_type,
                             loader>>
    /\ UNCHANGED <<layout_vars, range_vars, optimizer_vars, raised>>

\* The gather completes once every rank of the group has entered it.
Gather ==
    /\ \A r \in Ranks : pc[r] = "save" /\ in_collective[r]
    /\ LET n == step[0]
           c == CollectivesOfSave[n]
           last == n = Len(CollectivesOfSave)
       IN  /\ \A r \in Ranks : step[r] = n
           /\ state' = [state EXCEPT ![0][c.gbuf_idx][c.key] =
                    GatheredWorldTensor(@, c.gbuf_idx, c.bucket_idx, c.key)]
           /\ state_dict' = IF last THEN state'[0] ELSE state_dict
           /\ step' = [r \in Ranks |->
                    IF n = Len(CollectivesOfSaveOn(r)) THEN 0 ELSE n + 1]
           /\ pc' = [r \in Ranks |->
                    IF n = Len(CollectivesOfSaveOn(r)) THEN "saved" ELSE "save"]
           /\ local_shards' = [r \in Ranks |->
                    IF n = Len(CollectivesOfSaveOn(r)) THEN <<>> ELSE local_shards[r]]
    /\ in_collective' = [r \in Ranks |-> FALSE]
    /\ UNCHANGED <<layout_vars, range_vars, optimizer_vars, param_state,
                   checkpoint_sharding_type, loader, raised>>

(***************************************************************************)
(* DistributedOptimizer.load_state_dict, "Allocate empty optimizer state": *)
(* the run that loads the checkpoint starts from freshly allocated shards, *)
(* "Real data is overwritten during load_parameter_state()".               *)
(***************************************************************************)
DummyTensors(shards) ==
    [param \in DOMAIN shards |->
        [key \in {"param", "exp_avg", "exp_avg_sq"} |->
            [i \in 1 .. Len(shards[param][key]) |-> Uninitialized]]]

Restart(r) ==
    /\ pc[r] = "saved"
    /\ tensors' = [tensors EXCEPT ![r] = DummyTensors(@)]
    /\ pc' = [pc EXCEPT ![r] = "restarted"]
    /\ UNCHANGED <<layout_vars, range_vars, group_vars, checkpoint_vars, raised>>

(***************************************************************************)
(* DistributedOptimizer.load_parameter_state_from_dp_zero                  *)
(***************************************************************************)
\* The scatter collectives rank r issues, in the order of its loops over
\* self.gbuf_ranges, the keys and the buckets of each buffer.
CollectivesOfLoadOn(r) ==
    Concat([gbuf_idx \in 1 .. Len(gbuf_ranges[r]) |->
        Concat([k \in 1 .. Len(Keys) |->
            [bucket_idx \in 1 .. Len(gbuf_ranges[r][gbuf_idx]) |->
                [gbuf_idx |-> gbuf_idx, bucket_idx |-> bucket_idx, key |-> Keys[k]]]])])

\* The scatter collectives as DP rank 0, which sends, issues them.
CollectivesOfLoad == CollectivesOfLoadOn(0)

\* assert buffer_numel_unpadded == checkpoint_numel_unpadded
NumelUnpaddedMatches(gbuf_idx) ==
    buffers[gbuf_idx].numel_unpadded = state_dict[gbuf_idx].numel_unpadded

\* assert 0 <= start < end <= world_tensors.numel()
WorldSliceInBounds(gbuf_idx, bucket_idx, key) ==
    LET start == OffsetInWorldTensors(gbuf_idx, bucket_idx)
        end == start + buffers[gbuf_idx].buckets[bucket_idx].numel_unpadded
    IN  0 <= start /\ start < end /\ end <= Len(state_dict[gbuf_idx][key])

\* "Pad world_tensor to gbuf_world_numel. Don't pad at the front, pad at the
\* back."
PaddedWorldTensor(gbuf_idx, bucket_idx, key) ==
    LET bucket == buffers[gbuf_idx].buckets[bucket_idx]
        start == OffsetInWorldTensors(gbuf_idx, bucket_idx)
    IN  PadBack(Slice(state_dict[gbuf_idx][key], start, start + bucket.numel_unpadded),
                bucket.numel - bucket.numel_unpadded)

\* send_tensors[r]: what the scatter delivers into rank r's recv_tensor.
SendTensor(gbuf_idx, bucket_idx, key, r) ==
    LET gbuf_local_numel == GbufLocalNumel(gbuf_idx, bucket_idx)
    IN  Slice(PaddedWorldTensor(gbuf_idx, bucket_idx, key),
              r * gbuf_local_numel, r * gbuf_local_numel + gbuf_local_numel)

\* "Copy local contiguous shards to param/optim shards": every copy_ has
\* matching sizes.
RecvCopyable(r, gbuf_idx, bucket_idx, key) ==
    LET param_map == gbuf_ranges[r][gbuf_idx][bucket_idx].param_map
    IN  \A p \in DOMAIN param_map :
            CanCopy(Len(tensors[r][MainParamOf(r, <<gbuf_idx, p>>)][key]),
                    [i \in 1 .. param_map[p].gbuf_local.size |-> Zero])

\* "Copy local contiguous shards to param/optim shards": rank r's tensors
\* after the loop over the bucket's param_map.
TensorsAfterRecv(r, gbuf_idx, bucket_idx, key, recv_tensor) ==
    LET param_map == gbuf_ranges[r][gbuf_idx][bucket_idx].param_map
        Sources(main) == {p \in DOMAIN param_map :
                              MainParamOf(r, <<gbuf_idx, p>>) = main}
    IN  [main \in DOMAIN tensors[r] |->
            IF Sources(main) = {} THEN tensors[r][main]
            ELSE LET p == CHOOSE w \in Sources(main) : \A v \in Sources(main) : v <= w
                 IN  [tensors[r][main] EXCEPT ![key] =
                        Broadcast(Slice(recv_tensor, param_map[p].gbuf_local.start,
                                        param_map[p].gbuf_local.end),
                                  Len(tensors[r][main][key]))]]

\* Rank r runs up to its next torch.distributed.scatter and enters it; DP
\* rank 0 checks the checkpoint against the buffer on the way.
LoadArrive(r) ==
    /\ pc[r] \in {"restarted", "load"}
    /\ ~ in_collective[r]
    /\ LET n == IF pc[r] = "restarted" THEN 1 ELSE step[r]
           c == CollectivesOfLoadOn(r)[n]
       IN  IF /\ r = 0
              /\ \/ ~ NumelUnpaddedMatches(c.gbuf_idx)
                 \/ ~ WorldSliceInBounds(c.gbuf_idx, c.bucket_idx, c.key)
           THEN /\ pc' = [pc EXCEPT ![r] = "AssertionError"]
                /\ UNCHANGED <<step, in_collective>>
           ELSE /\ pc' = [pc EXCEPT ![r] = "load"]
                /\ step' = [step EXCEPT ![r] = n]
                /\ in_collective' = [in_collective EXCEPT ![r] = TRUE]
    /\ UNCHANGED <<layout_vars, range_vars, optimizer_vars, local_shards, state_dict,
                   state, param_state, checkpoint_sharding_type, loader, raised>>

\* The scatter completes once every rank of the group has entered it; each
\* rank then copies its recv_tensor into its shards.
Scatter ==
    /\ \A r \in Ranks : pc[r] = "load" /\ in_collective[r]
    /\ LET n == step[0]
           c == CollectivesOfLoad[n]
           Copyable(r) == RecvCopyable(r, c.gbuf_idx, c.bucket_idx, c.key)
       IN  /\ \A r \in Ranks : step[r] = n
           /\ tensors' = [r \in Ranks |->
                    IF Copyable(r)
                    THEN TensorsAfterRecv(r, c.gbuf_idx, c.bucket_idx, c.key,
                                          SendTensor(c.gbuf_idx, c.bucket_idx, c.key, r))
                    ELSE tensors[r]]
           /\ step' = [r \in Ranks |->
                    IF n = Len(CollectivesOfLoadOn(r)) \/ ~ Copyable(r) THEN 0 ELSE n + 1]
           /\ pc' = [r \in Ranks |->
                    IF ~ Copyable(r) THEN "RuntimeError"
                    ELSE IF n = Len(CollectivesOfLoadOn(r)) THEN "loaded" ELSE "load"]
    /\ in_collective' = [r \in Ranks |-> FALSE]
    /\ UNCHANGED <<layout_vars, range_vars, group_vars, local_shards, state_dict,
                   state, param_state, checkpoint_sharding_type, loader, raised>>

Next ==
    \/ \E r \in Ranks : Construct(r)
    \/ \E r \in Ranks : SaveArrive(r)
    \/ Gather
    \/ \E r \in Ranks : Restart(r)
    \/ \E r \in Ranks : LoadArrive(r)
    \/ Scatter

Spec == Init /\ [][Next]_vars

(***************************************************************************)
(* The distributed-checkpoint entry points: sharded_state_dict and the     *)
(* dispatch of load_state_dict, for the three param-state encodings.       *)
(***************************************************************************)
ShardingTypes ==
    {"dp_zero_gather_scatter", "fully_sharded_bucket_space", "fully_sharded_model_space"}

\* A sharding type that is none of the three.
UnknownShardingType == "fully_sharded_unknown_space"

None == <<"None">>

\* torch.empty((numel,))
Empty(numel) == [i \in 1 .. numel |-> Uninitialized]

(***************************************************************************)
(* DistributedOptimizer.get_parameter_state_fs_bucket_space                *)
(***************************************************************************)
\* bucket_state: one dict per parameter of the bucket's param_map, in the
\* order of the param_map, holding the main param and its optimizer state.
BucketState(r, gbuf_idx, bucket_idx) ==
    LET param_map == gbuf_ranges[r][gbuf_idx][bucket_idx].param_map
        order == SortedSeq(DOMAIN param_map)
    IN  [i \in 1 .. Len(order) |->
            LET main == tensors[r][MainParamOf(r, <<gbuf_idx, order[i]>>)]
            IN  [param |-> main.param,
                 exp_avg |-> main.exp_avg,
                 exp_avg_sq |-> main.exp_avg_sq,
                 gbuf_local_start |-> param_map[order[i]].gbuf_local.start,
                 gbuf_local_end |-> param_map[order[i]].gbuf_local.end]]

(***************************************************************************)
(* DistributedOptimizer.sharded_param_state_fs_bucket_space                *)
(***************************************************************************)
\* pad_tensors with their range, tagged as padding.
PadTensors(start, end) ==
    [param |-> Empty(end - start),
     exp_avg |-> Empty(end - start),
     exp_avg_sq |-> Empty(end - start),
     gbuf_local_start |-> start,
     gbuf_local_end |-> end,
     padding |-> TRUE]

\* Mutant: no padding is inserted between parameter tensors.
WithoutPaddingBetween(bucket_state) == bucket_state

\* "Insert padding between parameter tensors to ensure full coverage as
\* needed": all_pad_tensors[i + 1] is inserted in front of entry i + 1.
RECURSIVE WithPaddingBetween(_)
WithPaddingBetween(bucket_state) ==
    IF Len(bucket_state) <= 1 THEN bucket_state
    ELSE LET cur_param_end == bucket_state[1].gbuf_local_end
             next_param_start == bucket_state[2].gbuf_local_start
         IN  <<bucket_state[1]>>
             \o (IF next_param_start # cur_param_end
                 THEN <<PadTensors(cur_param_end, next_param_start)>>
                 ELSE <<>>)
             \o WithPaddingBetween(Tail(bucket_state))

\* The padding appended when the last entry does not end the local shard.
WithTailPadding(bucket_state, gbuf_local_numel) ==
    LET last == bucket_state[Len(bucket_state)]
    IN  IF last.gbuf_local_end # gbuf_local_numel
        THEN Append(bucket_state, PadTensors(last.gbuf_local_end, gbuf_local_numel))
        ELSE bucket_state

\* The bucket_state after both padding passes.
PaddedBucketState(r, gbuf_idx, bucket_idx) ==
    WithTailPadding(WithPaddingBetween(BucketState(r, gbuf_idx, bucket_idx)),
                    GbufLocalNumel(gbuf_idx, bucket_idx))

\* assert tensors[key].shape == (gbuf_local_end - gbuf_local_start,)
ShapesMatch(bucket_state) ==
    \A i \in 1 .. Len(bucket_state) : \A k \in 1 .. Len(Keys) :
        Len(bucket_state[i][Keys[k]])
            = bucket_state[i].gbuf_local_end - bucket_state[i].gbuf_local_start

\* The ShardedTensor of one key of one entry of a bucket: a slice
\* (flattened_range) of the DP-local shard of size gbuf_local_numel.
BucketShardedTensor(r, gbuf_idx, bucket_idx, key, entry) ==
    LET gbuf_local_numel == GbufLocalNumel(gbuf_idx, bucket_idx)
    IN  [key |-> <<gbuf_idx, bucket_idx, key>>,
         data |-> entry[key],
         local_shape |-> gbuf_local_numel,
         global_shape |-> data_parallel_world_size * gbuf_local_numel,
         global_offset |-> r * gbuf_local_numel,
         flattened_range |-> Range(entry.gbuf_local_start, entry.gbuf_local_end)]

\* "Each tensor is mapped to a slice (`flattened_range`) of a DP-local shard."
ShardedBucketState(r, gbuf_idx, bucket_idx) ==
    LET bucket_state == PaddedBucketState(r, gbuf_idx, bucket_idx)
    IN  [i \in 1 .. Len(bucket_state) |->
            [param |-> BucketShardedTensor(r, gbuf_idx, bucket_idx, "param",
                                           bucket_state[i]),
             exp_avg |-> BucketShardedTensor(r, gbuf_idx, bucket_idx, "exp_avg",
                                             bucket_state[i]),
             exp_avg_sq |-> BucketShardedTensor(r, gbuf_idx, bucket_idx, "exp_avg_sq",
                                                bucket_state[i]),
             padding |-> IF "padding" \in DOMAIN bucket_state[i]
                         THEN bucket_state[i].padding
                         ELSE FALSE]]

\* The buckets of rank r in the order of the loops.
BucketsInOrder ==
    Concat([gbuf_idx \in 1 .. Len(buffers) |->
                [bucket_idx \in 1 .. Len(buffers[gbuf_idx].buckets) |->
                    <<gbuf_idx, bucket_idx>>]])

\* Mutant: an empty bucket_state is let through.
BucketNotEmptyUnasserted(bucket_state) == TRUE

\* assert bucket_state, 'empty bucket encountered'
BucketNotEmpty(bucket_state) == bucket_state # <<>>

\* What the loop body raises for a bucket, <<>> when it raises nothing: the
\* assertion on an empty bucket_state, the IndexError of bucket_state[-1]
\* should an empty one get that far, the assertion on the shapes.
BucketFailure(r, gbuf_idx, bucket_idx) ==
    IF ~ BucketNotEmpty(BucketState(r, gbuf_idx, bucket_idx))
    THEN <<"AssertionError", "empty bucket encountered">>
    ELSE IF BucketState(r, gbuf_idx, bucket_idx) = <<>>
    THEN <<"IndexError", "list index out of range">>
    ELSE IF ~ ShapesMatch(PaddedBucketState(r, gbuf_idx, bucket_idx))
    THEN <<"AssertionError", "shape">>
    ELSE <<>>

\* What the loops raise on rank r: the failure of the first bucket that has
\* one.
FirstBucketFailure(r) ==
    LET failures == [n \in 1 .. Len(BucketsInOrder) |->
                        BucketFailure(r, BucketsInOrder[n][1], BucketsInOrder[n][2])]
        Raises(failure) == failure # <<>>
        raising == SelectSeq(failures, Raises)
    IN  IF raising = <<>> THEN <<>> ELSE Head(raising)

\* The loops run to their end on rank r: no bucket is empty and every tensor
\* has its range's size.
BucketSpaceAssertionsHold(r) == FirstBucketFailure(r) = <<>>

\* per_bucket_numel_unpadded of __init__.
PerBucketNumelUnpadded ==
    [gbuf_idx \in 1 .. Len(buffers) |->
        [bucket_idx \in 1 .. Len(buffers[gbuf_idx].buckets) |->
            buffers[gbuf_idx].buckets[bucket_idx].numel_unpadded]]

\* per_bucket_numel of __init__.
PerBucketNumel ==
    [gbuf_idx \in 1 .. Len(buffers) |->
        [bucket_idx \in 1 .. Len(buffers[gbuf_idx].buckets) |->
            buffers[gbuf_idx].buckets[bucket_idx].numel]]

\* The state the method returns on rank r.
ShardedParamStateFsBucketSpace(r) ==
    [per_bucket_numel |-> PerBucketNumel,
     per_bucket_numel_unpadded |-> PerBucketNumelUnpadded,
     gbufs |-> [gbuf_idx \in 1 .. Len(buffers) |->
                    [bucket_idx \in 1 .. Len(buffers[gbuf_idx].buckets) |->
                        ShardedBucketState(r, gbuf_idx, bucket_idx)]]]

(***************************************************************************)
(* DistributedOptimizer.sharded_param_state_fs_model_space (the branch     *)
(* taken off the Megatron-FSDP code path)                                  *)
(***************************************************************************)
\* param_to_sharded_metadata of rank r.
ParamToShardedMetadata(r) == model_sharded_state_dict[r]

HasMetadata(r, param) == param \in DOMAIN ParamToShardedMetadata(r)

\* assert len(sharded_metadata.replica_id) == 3
ReplicaIdWellFormed(r, param) == Len(ParamToShardedMetadata(r)[param].replica_id) = 3

\* Mutant: the data-parallel coordinate is kept.
ReplicaIdKept(sharded_metadata) == sharded_metadata.replica_id

\* "Set DP corresponding replica_id coordinate to 0."
ReplicaIdDpZero(sharded_metadata) ==
    <<sharded_metadata.replica_id[1], sharded_metadata.replica_id[2], 0>>

\* item_slice = (param_range.start, param_range.end)
ItemSlice(param_range_map) == <<param_range_map.param.start, param_range_map.param.end>>

\* _get_param_state_sharded_tensors: the model's ShardedTensor with key, data,
\* flattened_range and replica_id replaced.
ParamStateShardedTensors(r, model_param, main_param, item_slice) ==
    LET sharded_metadata == ParamToShardedMetadata(r)[model_param]
        Replaced(state_key, state_ten) ==
            [key |-> <<"optimizer.state", state_key, sharded_metadata.key>>,
             data |-> state_ten,
             flattened_range |-> Range(item_slice[1], item_slice[2]),
             replica_id |-> ReplicaIdDpZero(sharded_metadata)]
    IN  [fp32_param |-> Replaced("fp32_param", tensors[r][main_param].param),
         exp_avg |-> Replaced("exp_avg", tensors[r][main_param].exp_avg),
         exp_avg_sq |-> Replaced("exp_avg_sq", tensors[r][main_param].exp_avg_sq)]

\* Mutant: the parameters for which the helper raises, the last one first.
ParamsFailingLastFirst(r) ==
    LET Fails(param) == ~ HasMetadata(r, param) \/ ~ ReplicaIdWellFormed(r, param)
        failing == SelectSeq(LocalParamsInOrder(gbuf_ranges[r]), Fails)
    IN  [i \in 1 .. Len(failing) |-> failing[Len(failing) + 1 - i]]

\* The parameters the loops reach for which the helper raises.
ParamsFailingInModelSpace(r) ==
    LET Fails(param) == ~ HasMetadata(r, param) \/ ~ ReplicaIdWellFormed(r, param)
    IN  SelectSeq(LocalParamsInOrder(gbuf_ranges[r]), Fails)

\* state: entry param_idx (counted from 1 here) for the param_idx-th
\* parameter the loops reach.
ShardedParamStateFsModelSpace(r) ==
    LET params == IF with_megatron_fsdp_code_path THEN <<>>
                  ELSE LocalParamsInOrder(gbuf_ranges[r])
    IN  [param_idx \in 1 .. Len(params) |->
            ParamStateShardedTensors(
                r, params[param_idx], MainParamOf(r, params[param_idx]),
                ItemSlice(ModelParamRangeMap(gbuf_ranges[r], params[param_idx])))]

(***************************************************************************)
(* DistributedOptimizer.sharded_state_dict                                 *)
(***************************************************************************)
\* The returned state_dict: its 'param_state' and its
\* 'param_state_sharding_type'.
TaggedParamState(param_state_, sharding_type_) ==
    [param_state |-> param_state_, param_state_sharding_type |-> sharding_type_]

\* Rank r calls sharded_state_dict with a sharding type whose param state is
\* built without communication, or with a type the call rejects.
ShardedStateDict(r) ==
    /\ pc[r] = "ready"
    /\ sharding_type # "dp_zero_gather_scatter" \/ with_megatron_fsdp_code_path
    /\ \E is_loading \in BOOLEAN :
        IF with_megatron_fsdp_code_path /\ sharding_type # "fully_sharded_model_space"
        THEN /\ pc' = [pc EXCEPT ![r] = "AssertionError"]
             /\ UNCHANGED <<param_state, raised>>
        ELSE IF sharding_type = "fully_sharded_bucket_space"
        THEN IF BucketSpaceAssertionsHold(r)
             THEN /\ param_state' = [param_state EXCEPT ![r] =
                        TaggedParamState(ShardedParamStateFsBucketSpace(r), sharding_type)]
                  /\ pc' = [pc EXCEPT ![r] = "sharded"]
                  /\ UNCHANGED raised
             ELSE /\ pc' = [pc EXCEPT ![r] = FirstBucketFailure(r)[1]]
                  /\ raised' = [raised EXCEPT ![r] = FirstBucketFailure(r)]
                  /\ UNCHANGED param_state
        ELSE IF sharding_type = "fully_sharded_model_space"
        THEN LET failing == IF with_megatron_fsdp_code_path THEN <<>>
                            ELSE ParamsFailingInModelSpace(r)
             IN  IF failing = <<>>
                 THEN /\ param_state' = [param_state EXCEPT ![r] =
                            TaggedParamState(ShardedParamStateFsModelSpace(r),
                                             sharding_type)]
                      /\ pc' = [pc EXCEPT ![r] = "sharded"]
                      /\ UNCHANGED raised
                 ELSE IF ~ HasMetadata(r, Head(failing))
                 THEN /\ pc' = [pc EXCEPT ![r] = "ValueError"]
                      /\ raised' = [raised EXCEPT ![r] = <<"ValueError", Head(failing)>>]
                      /\ UNCHANGED param_state
                 ELSE /\ pc' = [pc EXCEPT ![r] = "AssertionError"]
                      /\ UNCHANGED <<param_state, raised>>
        ELSE /\ pc' = [pc EXCEPT ![r] = "NotImplementedError"]
             /\ UNCHANGED <<param_state, raised>>
    /\ UNCHANGED <<layout_vars, range_vars, optimizer_vars, step, in_collective,
                   local_shards, state_dict, state, checkpoint_sharding_type, loader>>

(***************************************************************************)
(* DistributedOptimizer.sharded_param_state_dp_zero                        *)
(***************************************************************************)
\* get_parameter_state_dp_zero has returned on rank r: DP rank 0 wraps the
\* gathered state, every other rank returns None, and sharded_state_dict tags
\* the result.
ShardedParamStateDpZero(r) ==
    /\ pc[r] = "saved"
    /\ param_state' = [param_state EXCEPT ![r] =
            TaggedParamState(IF r = 0 THEN state[r] ELSE None, sharding_type)]
    /\ pc' = [pc EXCEPT ![r] = "sharded"]
    /\ UNCHANGED <<layout_vars, range_vars, optimizer_vars, step, in_collective,
                   local_shards, state_dict, state, checkpoint_sharding_type, loader,
                   raised>>

(***************************************************************************)
(* DistributedOptimizer.load_parameter_state_from_fs_bucket_space          *)
(***************************************************************************)
\* Mutant: the blocks tagged as padding are not dropped.
NonPaddingKept(bucket_state) == bucket_state

\* The bucket_state without the elements tagged as padding.
NonPadding(bucket_state) ==
    LET IsReal(bucket_state_elem) == ~ bucket_state_elem.padding
    IN  SelectSeq(bucket_state, IsReal)

\* assert self.per_bucket_numel_unpadded == per_bucket_numel_unpadded_in_checkpoint
\* and, per bucket, assert len(bucket_state) == len(gbuf_range_map["param_map"])
BucketSpaceLoadAssertionsHold(r, checkpoint) ==
    /\ PerBucketNumelUnpadded = checkpoint.per_bucket_numel_unpadded
    /\ \A n \in 1 .. Len(BucketsInOrder) :
        LET gbuf_idx == BucketsInOrder[n][1]
            bucket_idx == BucketsInOrder[n][2]
        IN  Len(NonPadding(checkpoint.gbufs[gbuf_idx][bucket_idx]))
                = Cardinality(DOMAIN gbuf_ranges[r][gbuf_idx][bucket_idx].param_map)

\* The source tensors zipped with the param_map: what is copied into a main
\* param (the last copy, should two parameters lead to the same main param).
BucketSpaceSources(r, checkpoint, main) ==
    {src \in UNION {UNION {
            LET order == SortedSeq(DOMAIN gbuf_ranges[r][gbuf_idx][bucket_idx].param_map)
                bucket_state == NonPadding(checkpoint.gbufs[gbuf_idx][bucket_idx])
            IN  {[place |-> <<gbuf_idx, bucket_idx, i>>,
                  param |-> <<gbuf_idx, order[i]>>,
                  tensors |-> bucket_state[i]] : i \in 1 .. Len(order)} :
                bucket_idx \in 1 .. Len(buffers[gbuf_idx].buckets)} :
            gbuf_idx \in 1 .. Len(buffers)} :
        MainParamOf(r, src.param) = main}

\* <<a1, a2, a3>> comes before <<b1, b2, b3>> in the order of the loops.
PlaceBefore(a, b) ==
    \/ a[1] < b[1]
    \/ a[1] = b[1] /\ a[2] < b[2]
    \/ a[1] = b[1] /\ a[2] = b[2] /\ a[3] <= b[3]

LastSource(sources) ==
    CHOOSE src \in sources : \A other \in sources : PlaceBefore(other.place, src.place)

\* dst_tensors[key].copy_(src_tensors[key]) is defined for every copy.
BucketSpaceCopyable(r, checkpoint, shards) ==
    \A main \in DOMAIN shards :
        \A src \in BucketSpaceSources(r, checkpoint, main) : \A k \in 1 .. Len(Keys) :
            CanCopy(Len(shards[main][Keys[k]]), src.tensors[Keys[k]].data)

\* The main params and optimizer state after the copies.
TensorsFromFsBucketSpace(r, checkpoint, shards) ==
    [main \in DOMAIN shards |->
        LET sources == BucketSpaceSources(r, checkpoint, main)
        IN  IF sources = {} THEN shards[main]
            ELSE [key \in {"param", "exp_avg", "exp_avg_sq"} |->
                    Broadcast(LastSource(sources).tensors[key].data,
                              Len(shards[main][key]))]]

(***************************************************************************)
(* DistributedOptimizer.load_parameter_state_from_fs_model_space (the      *)
(* branch taken off the Megatron-FSDP code path)                           *)
(***************************************************************************)
\* Mutant: param_idx counts the parameters from the last one.
ModelSpaceSourcesBackwards(r, main) ==
    LET params == LocalParamsInOrder(gbuf_ranges[r])
    IN  {param_idx \in 1 .. Len(params) :
            MainParamOf(r, params[Len(params) + 1 - param_idx]) = main}

\* The entries of the checkpoint that are copied into a main param.
ModelSpaceSources(r, main) ==
    LET params == LocalParamsInOrder(gbuf_ranges[r])
    IN  {param_idx \in 1 .. Len(params) : MainParamOf(r, params[param_idx]) = main}

ModelSpaceCopyable(r, checkpoint, shards) ==
    /\ Len(checkpoint) >= Len(LocalParamsInOrder(gbuf_ranges[r]))
    /\ \A main \in DOMAIN shards : \A param_idx \in ModelSpaceSources(r, main) :
            /\ CanCopy(Len(shards[main].param), checkpoint[param_idx].fp32_param.data)
            /\ CanCopy(Len(shards[main].exp_avg), checkpoint[param_idx].exp_avg.data)
            /\ CanCopy(Len(shards[main].exp_avg_sq), checkpoint[param_idx].exp_avg_sq.data)

TensorsFromFsModelSpace(r, checkpoint, shards) ==
    [main \in DOMAIN shards |->
        LET sources == ModelSpaceSources(r, main)
        IN  IF sources = {} THEN shards[main]
            ELSE LET param_idx == CHOOSE i \in sources : \A j \in sources : j <= i
                     src_tensors == checkpoint[param_idx]
                 IN  [param |-> Broadcast(src_tensors.fp32_param.data,
                                          Len(shards[main].param)),
                      exp_avg |-> Broadcast(src_tensors.exp_avg.data,
                                            Len(shards[main].exp_avg)),
                      exp_avg_sq |-> Broadcast(src_tensors.exp_avg_sq.data,
                                               Len(shards[main].exp_avg_sq))]]

(***************************************************************************)
(* DistributedOptimizer.load_state_dict, called in the run that restores   *)
(* the checkpoint with a state_dict that holds a 'param_state': what rank  *)
(* r saved, under the tag of the checkpoint.                               *)
(***************************************************************************)
\* The tags a checkpoint handed to rank r may carry: the one its param state
\* was saved under or an unknown one; where the assertion of the
\* Megatron-FSDP code path precedes any use of the param state, any tag.
CheckpointTags(r) ==
    {param_state[r].param_state_sharding_type, UnknownShardingType}
    \cup (IF with_megatron_fsdp_code_path THEN ShardingTypes ELSE {})

\* Mutant: a tag that is none of the three is loaded as model space.
LoaderOfTagDefaulting(tag) ==
    IF tag = "dp_zero_gather_scatter" THEN "load_parameter_state_from_dp_zero"
    ELSE IF tag = "fully_sharded_bucket_space"
    THEN "load_parameter_state_from_fs_bucket_space"
    ELSE "load_parameter_state_from_fs_model_space"

\* The if/elif chain on sharding_type: the loader it calls, or the error it
\* raises.
LoaderOfTag(tag) ==
    IF tag = "dp_zero_gather_scatter" THEN "load_parameter_state_from_dp_zero"
    ELSE IF tag = "fully_sharded_bucket_space"
    THEN "load_parameter_state_from_fs_bucket_space"
    ELSE IF tag = "fully_sharded_model_space"
    THEN "load_parameter_state_from_fs_model_space"
    ELSE "NotImplementedError"

\* The allocation and the dispatch on the tag.
LoadStateDictTagged(r, tag) ==
    LET checkpoint == param_state[r].param_state
        shards == DummyTensors(tensors[r])
    IN  IF with_megatron_fsdp_code_path /\ tag # "fully_sharded_model_space"
        THEN /\ pc' = [pc EXCEPT ![r] = "AssertionError"]
             /\ tensors' = [tensors EXCEPT ![r] = shards]
             /\ UNCHANGED loader
        ELSE IF LoaderOfTag(tag) = "load_parameter_state_from_dp_zero"
        THEN /\ loader' = [loader EXCEPT ![r] = "load_parameter_state_from_dp_zero"]
             /\ tensors' = [tensors EXCEPT ![r] = shards]
             /\ pc' = [pc EXCEPT ![r] = "restarted"]
        ELSE IF LoaderOfTag(tag) = "load_parameter_state_from_fs_bucket_space"
        THEN /\ loader' = [loader EXCEPT ![r] =
                    "load_parameter_state_from_fs_bucket_space"]
             /\ IF ~ BucketSpaceLoadAssertionsHold(r, checkpoint)
                THEN /\ pc' = [pc EXCEPT ![r] = "AssertionError"]
                     /\ tensors' = [tensors EXCEPT ![r] = shards]
                ELSE IF ~ BucketSpaceCopyable(r, checkpoint, shards)
                THEN /\ pc' = [pc EXCEPT ![r] = "RuntimeError"]
                     /\ tensors' = [tensors EXCEPT ![r] = shards]
                ELSE /\ pc' = [pc EXCEPT ![r] = "loaded"]
                     /\ tensors' = [tensors EXCEPT ![r] =
                            TensorsFromFsBucketSpace(r, checkpoint, shards)]
        ELSE IF LoaderOfTag(tag) = "load_parameter_state_from_fs_model_space"
        THEN /\ loader' = [loader EXCEPT ![r] =
                    "load_parameter_state_from_fs_model_space"]
             /\ IF with_megatron_fsdp_code_path
                THEN /\ pc' = [pc EXCEPT ![r] = "loaded"]
                     /\ tensors' = [tensors EXCEPT ![r] = shards]
                ELSE IF ~ ModelSpaceCopyable(r, checkpoint, shards)
                THEN /\ pc' = [pc EXCEPT ![r] = "RuntimeError"]
                     /\ tensors' = [tensors EXCEPT ![r] = shards]
                ELSE /\ pc' = [pc EXCEPT ![r] = "loaded"]
                     /\ tensors' = [tensors EXCEPT ![r] =
                            TensorsFromFsModelSpace(r, checkpoint, shards)]
        ELSE /\ pc' = [pc EXCEPT ![r] = "NotImplementedError"]
             /\ tensors' = [tensors EXCEPT ![r] = shards]
             /\ UNCHANGED loader

\* Rank r calls load_state_dict with the state_dict of a checkpoint.
LoadStateDict(r) ==
    /\ pc[r] = "sharded"
    /\ \E tag \in CheckpointTags(r) :
        /\ checkpoint_sharding_type' = [checkpoint_sharding_type EXCEPT ![r] = tag]
        /\ LoadStateDictTagged(r, tag)
    /\ UNCHANGED <<layout_vars, range_vars, group_vars, step, in_collective,
                   local_shards, state_dict, state, param_state, raised>>

(***************************************************************************)
(* The layouts of the distributed-checkpoint runs.  A bucket has at most   *)
(* ShardedMaxNumel elements, so that one rank's shard can hold two         *)
(* parameters separated by alignment padding and followed by the bucket's  *)
(* trailing padding; the group has at most ShardedMaxWorldSize ranks; the  *)
(* buckets of a layout total at most ShardedMaxNumel elements.             *)
(***************************************************************************)
ShardedMaxWorldSize == 2
ShardedMaxNumel == 4

\* The parameter types of the runs: the three supported ones and one that
\* _build_model_and_main_param_groups rejects.
ShardedParamTypes ==
    ParamTypes \cup {"torch.cuda.BFloat16Tensor", "torch.cuda.DoubleTensor"}

ShardedBucketShapes(world_size) ==
    UNION {UNION {{[shard |-> shard, numel |-> shard * world_size,
                    numel_unpadded |-> numel_unpadded, params |-> params] :
                        params \in {pl \in ParamPlacements(numel_unpadded) :
                                        Len(pl) = 1 \/ pl[1].end <= pl[2].start}} :
                  numel_unpadded \in
                      Max(1, shard * world_size - MaxPadding) .. (shard * world_size)} :
           shard \in 1 .. (ShardedMaxNumel \div world_size)}

ShardedBufferLayouts(world_size) ==
    LET shapes == ShardedBucketShapes(world_size)
        pairs == {<<s1, s2>> : s1 \in shapes, s2 \in shapes}
        small == {sq \in pairs : /\ sq[1].numel + sq[2].numel <= ShardedMaxNumel
                                 /\ Len(sq[1].params) + Len(sq[2].params) <= MaxBuckets + 1}
    IN  {<<BufferOfShapes(<<shape>>, type)>> : shape \in shapes, type \in ShardedParamTypes}
        \cup {<<BufferOfShapes(sq, type)>> : sq \in small, type \in ParamTypes}
        \cup {[g \in 1 .. 2 |-> BufferOfShapes(<<sq[g]>>, types[g])] :
                sq \in {s \in small : Len(s[1].params) = 1 /\ Len(s[2].params) = 1},
                types \in [1 .. 2 -> ShardedParamTypes]}

\* The metadata the model's sharded state dict holds for a parameter on rank
\* r: its key and its replica_id (PP, TP, DP).  A parameter may be absent
\* from the dict, or its replica_id may lack a coordinate.
MetadataStates == {"present", "absent", "malformed"}

ModelShardedStateDict(kinds, r) ==
    [param \in {p \in DOMAIN kinds : kinds[p] # "absent"} |->
        [key |-> param,
         replica_id |-> IF kinds[param] = "malformed"
                        THEN <<param[1], param[2]>>
                        ELSE <<param[1], param[2], r + 1>>]]

InitSharded ==
    /\ data_parallel_world_size \in 1 .. ShardedMaxWorldSize
    /\ with_megatron_fsdp_code_path \in BOOLEAN
    /\ sharding_type \in ShardingTypes \cup {UnknownShardingType}
    /\ IF with_megatron_fsdp_code_path
       THEN buffers = <<>>
       ELSE buffers \in ShardedBufferLayouts(data_parallel_world_size)
    /\ param_groups \in ParamGroupings(buffers)
    /\ \E kinds \in [{AllParams(buffers)[i] : i \in 1 .. Len(AllParams(buffers))}
                        -> MetadataStates] :
        /\ sharding_type # "fully_sharded_model_space" =>
                \A p \in DOMAIN kinds : kinds[p] = "present"
        /\ model_sharded_state_dict =
                [r \in Ranks |-> ModelShardedStateDict(kinds, r)]
    /\ NothingBuilt

\* sharded_state_dict with the type dp_zero_gather_scatter: rank r runs
\* get_parameter_state_dp_zero up to its next gather.
ShardedStateDictDpZero(r) ==
    /\ sharding_type = "dp_zero_gather_scatter"
    /\ ~ with_megatron_fsdp_code_path
    /\ SaveArrive(r)

NextSharded ==
    \/ \E r \in Ranks : Construct(r)
    \/ \E r \in Ranks : ShardedStateDict(r)
    \/ \E r \in Ranks : ShardedStateDictDpZero(r)
    \/ Gather
    \/ \E r \in Ranks : ShardedParamStateDpZero(r)
    \/ \E r \in Ranks : LoadStateDict(r)
    \/ \E r \in Ranks : LoadArrive(r)
    \/ Scatter

SpecSharded == InitSharded /\ [][NextSharded]_vars

(***************************************************************************)
(* DistributedOptimizer.split_state_dict_if_needed, called on DP rank 0    *)
(* with the state_dict of a checkpoint.  Here a buffer of the run is the   *)
(* record of what the method reads of it: whether its first parameter is a *)
(* Float8Tensor, the (param_dtype, grad_dtype) key of its gbuf_ranges      *)
(* entry, the dtype of its first parameter and its param_indices; the      *)
(* state_dict is the sequence of its items in key order, an item being     *)
(* 'buckets_coalesced' or a buffer's {dtype: world_tensors}.               *)
(*                                                                         *)
(* Bounds: at most SplitMaxBuffers buffers in the run and                  *)
(* SplitMaxCheckpointBuffers buffers in the checkpoint.                    *)
(***************************************************************************)
SplitMaxBuffers == 2
SplitMaxCheckpointBuffers == 3

GradDtype == "torch.float32"

\* The dtypes of parameters that are not fp8.
HighPrecisionDtypes == {"torch.bfloat16", "torch.float16"}

\* The buffers a run can hold: an fp8 buffer has param_dtype torch.uint8 and
\* parameters whose .dtype is the dummy dtype of Float8Tensor.
SplitBuffers ==
    {[is_float8tensor |-> fp8,
      dtype |-> <<IF fp8 THEN "torch.uint8" ELSE high, GradDtype>>,
      params_dtype |-> high,
      param_indices |-> indices] :
        fp8 \in BOOLEAN, high \in HighPrecisionDtypes, indices \in {<<0>>, <<1>>}}

\* The checkpoints: 'buckets_coalesced' (when present) first, then the
\* buffers by index.
SplitCheckpoints ==
    LET dtypes == {<<d, GradDtype>> : d \in HighPrecisionDtypes \cup {"torch.uint8"}}
        Item(gbuf_idx, dtype) ==
            [key |-> "gbuf", gbuf_idx |-> gbuf_idx, dtype |-> dtype,
             world_tensors |-> <<"world_tensors", gbuf_idx>>]
        gbufs == UNION {{[i \in 1 .. n |-> Item(i - 1, ds[i])] : ds \in [1 .. n -> dtypes]} :
                        n \in 1 .. SplitMaxCheckpointBuffers}
    IN  gbufs \cup {<<[key |-> "buckets_coalesced"]>> \o items : items \in gbufs}

InitSplit ==
    /\ data_parallel_world_size = 1
    /\ buffers \in UNION {[1 .. n -> SplitBuffers] : n \in 1 .. SplitMaxBuffers}
    /\ param_groups = <<>>
    /\ with_megatron_fsdp_code_path = FALSE
    /\ sharding_type = "dp_zero_gather_scatter"
    /\ model_sharded_state_dict = <<>>
    /\ state_dict \in SplitCheckpoints
    /\ pc = [r \in Ranks |-> "start"]
    /\ range_locals = [r \in Ranks |-> <<>>]
    /\ gbuf_ranges = [r \in Ranks |-> <<>>]
    /\ model_param_group_index_map = [r \in Ranks |-> <<>>]
    /\ optimizer_param_groups = [r \in Ranks |-> <<>>]
    /\ tensors = [r \in Ranks |-> <<>>]
    /\ step = [r \in Ranks |-> 0]
    /\ in_collective = [r \in Ranks |-> FALSE]
    /\ local_shards = [r \in Ranks |-> <<>>]
    /\ opt_group_ranges = [r \in Ranks |-> <<>>]
    /\ shard_groups = [r \in Ranks |-> <<>>]
    /\ state = [r \in Ranks |-> <<>>]
    /\ param_state = [r \in Ranks |-> <<>>]
    /\ checkpoint_sharding_type = [r \in Ranks |-> "none"]
    /\ loader = [r \in Ranks |-> "none"]
    /\ raised = [r \in Ranks |-> <<>>]

\* fp8_gbuf_indices, counted from 1.
Fp8GbufIndices(bufs) == SelectSeq([g \in 1 .. Len(bufs) |-> g],
                                  LAMBDA g : bufs[g].is_float8tensor)

\* The loop over state_dict.keys(): "AssertionError" when a dtype comes a
\* second time, "return" at a dtype whose parameter dtype is torch.uint8,
\* otherwise the dtypes seen.
RECURSIVE DtypeToGbufIdx(_, _)
DtypeToGbufIdx(items, seen) ==
    IF items = <<>> THEN [outcome |-> "continue", dtypes |-> seen]
    ELSE IF Head(items).key = "buckets_coalesced" THEN DtypeToGbufIdx(Tail(items), seen)
    ELSE IF Head(items).dtype \in seen THEN [outcome |-> "AssertionError", dtypes |-> seen]
    ELSE IF Head(items).dtype[1] = "torch.uint8" THEN [outcome |-> "return", dtypes |-> seen]
    ELSE DtypeToGbufIdx(Tail(items), seen \cup {Head(items).dtype})

\* The asserts on the param_indices of the fp8 buffer and of the buffer to
\* split.
ParamIndicesConsistent(fp8_buffer, non_fp8_buffer) ==
    LET param_indices == fp8_buffer.param_indices \o non_fp8_buffer.param_indices
        indices == {param_indices[i] : i \in 1 .. Len(param_indices)}
    IN  /\ Cardinality(indices) = Len(param_indices)
        /\ 0 \in indices
        /\ \A index \in indices : index <= Len(param_indices) - 1

\* How the call ends.  The loop that fills fp8_flags appends to the unbound
\* name fp8_flag, so no call gets as far as updating state_dict.
SplitOutcome(bufs, checkpoint) ==
    LET fp8_gbuf_indices == Fp8GbufIndices(bufs)
        scan == DtypeToGbufIdx(checkpoint, {})
        non_fp8 == {g \in 1 .. Len(bufs) : ~ bufs[g].is_float8tensor}
        fp8_buffer == bufs[Head(fp8_gbuf_indices)]
        to_split == {g \in 1 .. Len(bufs) :
                        bufs[g].dtype = <<fp8_buffer.params_dtype, GradDtype>>}
        non_fp8_gbuf_idx == CHOOSE g \in to_split : \A h \in to_split : h <= g
    IN  IF fp8_gbuf_indices = <<>> THEN "return"
        ELSE IF scan.outcome # "continue" THEN scan.outcome
        ELSE IF \A i \in 1 .. Len(checkpoint) : checkpoint[i].key # "buckets_coalesced"
        THEN "KeyError"
        ELSE IF \E g \in non_fp8 : bufs[g].dtype \notin scan.dtypes THEN "KeyError"
        ELSE IF to_split = {} THEN "AssertionError"
        ELSE IF ~ ParamIndicesConsistent(fp8_buffer, bufs[non_fp8_gbuf_idx])
        THEN "AssertionError"
        ELSE "NameError"

\* The state_dict the call leaves behind: the in-place update of the last
\* lines is never reached.
SplitStateDict(bufs, checkpoint) == checkpoint

SplitStateDictIfNeeded(r) ==
    /\ r = 0
    /\ pc[r] = "start"
    /\ pc' = [pc EXCEPT ![r] = IF SplitOutcome(buffers, state_dict) = "return"
                               THEN "returned"
                               ELSE SplitOutcome(buffers, state_dict)]
    /\ state_dict' = SplitStateDict(buffers, state_dict)
    /\ UNCHANGED <<layout_vars, range_vars, optimizer_vars, step, in_collective,
                   local_shards, state, param_state, checkpoint_sharding_type, loader,
                   raised>>

NextSplit == \E r \in Ranks : SplitStateDictIfNeeded(r)

SpecSplit == InitSplit /\ [][NextSplit]_vars

(***************************************************************************)
(* Properties of the checkpoint protocols (checked under Spec).            *)
(***************************************************************************)
AllLoaded == \A r \in Ranks : pc[r] = "loaded"

\* The parameters rank r owns a shard of.
OwnedParams(r) == DOMAIN model_param_group_index_map[r]

\* C10: coordinator round trip.  If all ranks run
\* get_parameter_state_dp_zero and then all ranks run
\* load_parameter_state_from_dp_zero with the root's result, every rank's
\* owned shard of param, exp_avg and exp_avg_sq of every owned parameter
\* equals, element for element, its value at save time.
C10_CoordinatorRoundTrip ==
    AllLoaded =>
        \A r \in Ranks :
            /\ DOMAIN tensors[r] = OwnedParams(r)
            /\ \A param \in OwnedParams(r) : \A k \in 1 .. Len(Keys) :
                LET param_range == ModelParamRangeMap(gbuf_ranges[r], param).param
                    shard == tensors[r][param][Keys[k]]
                IN  /\ Len(shard) = param_range.size
                    /\ \A i \in 1 .. Len(shard) :
                            shard[i] = ValueOf(Keys[k], param, param_range.start + i - 1)

C10_Witness ==
    /\ AllLoaded
    /\ data_parallel_world_size = 3
    /\ Len(buffers) = 1
    /\ Len(buffers[1].buckets) = 2
    /\ buffers[1].buckets[1].numel_unpadded < buffers[1].buckets[1].numel
    /\ buffers[1].buckets[2].numel_unpadded < buffers[1].buckets[2].numel
    /\ \E p \in DOMAIN buffers[1].param_index_map :
            /\ buffers[1].param_index_map[p].start > buffers[1].buckets[2].offset
            /\ Cardinality({r \in Ranks : <<1, p>> \in OwnedParams(r)}) = 2
    /\ \E r \in Ranks : DOMAIN gbuf_ranges[r][1][1].param_map = {}

AllSaved == \A r \in Ranks : pc[r] = "saved"

\* The sum of the unpadded sizes of the buckets that precede a bucket.
PrecedingUnpadded(gbuf_idx, bucket_idx) ==
    SumOf([b \in 1 .. (bucket_idx - 1) |->
                buffers[gbuf_idx].buckets[b].numel_unpadded])

\* The rank-ordered concatenation of all ranks' local shards of a bucket.
ShardsOfAllRanks(gbuf_idx, bucket_idx, key) ==
    Concat([q \in 1 .. data_parallel_world_size |->
                LocalShards(q - 1, gbuf_idx, bucket_idx)[key]])

\* C11: after get_parameter_state_dp_zero, on DP rank 0 each key's world
\* tensor has the buffer's unpadded numel as its length and, for every
\* bucket b in bucket order, positions [off_b, off_b + unpadded_b) hold the
\* first unpadded_b elements of the rank-ordered concatenation of all ranks'
\* local shards of b, off_b being the sum of the unpadded sizes of the
\* preceding buckets; on every other rank the world state is empty.
C11_GatheredWorldState ==
    AllSaved =>
        /\ Len(state[0]) = Len(buffers)
        /\ \A gbuf_idx \in 1 .. Len(buffers) : \A k \in 1 .. Len(Keys) :
                LET world_tensor == state[0][gbuf_idx][Keys[k]]
                IN  /\ Len(world_tensor) = buffers[gbuf_idx].numel_unpadded
                    /\ \A bucket_idx \in 1 .. Len(buffers[gbuf_idx].buckets) :
                           LET off == PrecedingUnpadded(gbuf_idx, bucket_idx)
                               all == ShardsOfAllRanks(gbuf_idx, bucket_idx, Keys[k])
                           IN  \A i \in 1 .. buffers[gbuf_idx].buckets[bucket_idx]
                                                .numel_unpadded :
                                    world_tensor[off + i] = all[i]
        /\ \A r \in Ranks \ {0} :
                /\ Len(state[r]) = Len(buffers)
                /\ \A gbuf_idx \in 1 .. Len(buffers) : DOMAIN state[r][gbuf_idx] = {}

C11_Witness ==
    /\ AllSaved
    /\ data_parallel_world_size = 3
    /\ Len(buffers) = 1
    /\ Len(buffers[1].buckets) = 2
    /\ buffers[1].buckets[1].numel_unpadded < buffers[1].buckets[1].numel
    /\ buffers[1].buckets[2].numel_unpadded < buffers[1].buckets[2].numel
    /\ \E i \in 1 .. Len(state[0][1].exp_avg) : state[0][1].exp_avg[i] # Zero

\* Every rank is blocked in the scatter that is about to complete.
ScatterCompletes == \A r \in Ranks : pc[r] = "load" /\ in_collective[r]

\* The bucket's unpadded slice of the checkpoint's world tensor, extended to
\* the padded bucket size with zeros at the tail.
PaddedSliceOfCheckpoint(gbuf_idx, bucket_idx, key) ==
    LET bucket == buffers[gbuf_idx].buckets[bucket_idx]
        off == PrecedingUnpadded(gbuf_idx, bucket_idx)
    IN  [i \in 1 .. bucket.numel |->
            IF i <= bucket.numel_unpadded
            THEN state_dict[gbuf_idx][key][off + i]
            ELSE Zero]

\* Elements [gbuf_local.start, gbuf_local.end) of rank r's chunk
\* [r*L, (r+1)*L) of the padded tensor.
OwnedSliceOfChunk(r, gbuf_idx, bucket_idx, key, gbuf_local) ==
    LET L == buffers[gbuf_idx].buckets[bucket_idx].numel \div data_parallel_world_size
    IN  [i \in 1 .. gbuf_local.size |->
            PaddedSliceOfCheckpoint(gbuf_idx, bucket_idx, key)[r * L + gbuf_local.start + i]]

\* C12 (as stated): in load_parameter_state_from_dp_zero, for every bucket
\* and key the root pads the bucket's unpadded slice of the world tensor at
\* the tail to the padded bucket size, rank r receives elements
\* [r*L, (r+1)*L) of it, and each rank copies recv[gbuf_local.start :
\* gbuf_local.end] into the shard storage of the owned parameter the range
\* belongs to.
C12_ScatterAsStated ==
    [][ScatterCompletes =>
            LET c == CollectivesOfLoad[step[0]]
            IN  \A r \in Ranks :
                    \A p \in DOMAIN gbuf_ranges[r][c.gbuf_idx][c.bucket_idx].param_map :
                        tensors'[r][<<c.gbuf_idx, p>>][c.key] =
                            OwnedSliceOfChunk(r, c.gbuf_idx, c.bucket_idx, c.key,
                                gbuf_ranges[r][c.gbuf_idx][c.bucket_idx].param_map[p]
                                    .gbuf_local)]_vars

\* The same step, with the destination being the main parameter that
\* model_param_group_index_map and optimizer.param_groups lead to: this holds.
C12_ScatterIntoLookedUpMain ==
    [][ScatterCompletes =>
            LET c == CollectivesOfLoad[step[0]]
            IN  \A r \in Ranks :
                    \A p \in DOMAIN gbuf_ranges[r][c.gbuf_idx][c.bucket_idx].param_map :
                        tensors'[r][MainParamOf(r, <<c.gbuf_idx, p>>)][c.key] =
                            OwnedSliceOfChunk(r, c.gbuf_idx, c.bucket_idx, c.key,
                                gbuf_ranges[r][c.gbuf_idx][c.bucket_idx].param_map[p]
                                    .gbuf_local)]_vars

(***************************************************************************)
(* Properties of the construction.                                         *)
(***************************************************************************)
\* __init__ has returned on rank r and built the range and group structures.
Constructed(r) ==
    /\ pc[r] \notin {"start", "AssertionError", "TypeError"}
    /\ ~ with_megatron_fsdp_code_path

\* The parameters of a group that rank r owns a part of.
OwnedOfGroup(r, group_index) ==
    {param \in OwnedParams(r) :
        \E i \in 1 .. Len(param_groups[group_index]) :
            param_groups[group_index][i] = param}

BlocksOf(r, gbuf_idx, bucket_idx) == param_state[r].param_state.gbufs[gbuf_idx][bucket_idx]

\* The tensors of one key of a sequence of blocks, in order.
DataOf(blocks, key) == [i \in 1 .. Len(blocks) |-> blocks[i][key].data]

\* Rank r, holding a bucket-space param state, has load_state_dict invoke the
\* bucket-space loader in this step.
LoadsBucketSpace(r) ==
    /\ pc[r] = "sharded"
    /\ loader[r] = "none"
    /\ loader'[r] = "load_parameter_state_from_fs_bucket_space"

\* C13: what sharded_param_state_fs_bucket_space encoded on a rank,
\* load_parameter_state_from_fs_bucket_space restores on it: the blocks left
\* after dropping those tagged padding are, in order, the tensors read from
\* the bucket's parameters, and after the load param, exp_avg and exp_avg_sq
\* of every owned parameter hold the values they held when encoded.
C13_BucketSpaceRoundTrip ==
    [][\A r \in Ranks :
        LoadsBucketSpace(r) =>
            /\ pc'[r] = "loaded"
            /\ \A n \in 1 .. Len(BucketsInOrder) : \A k \in 1 .. Len(Keys) :
                LET gbuf_idx == BucketsInOrder[n][1]
                    bucket_idx == BucketsInOrder[n][2]
                    IsReal(block) == ~ block.padding
                    Read(i) == BucketState(r, gbuf_idx, bucket_idx)[i][Keys[k]]
                IN  DataOf(SelectSeq(BlocksOf(r, gbuf_idx, bucket_idx), IsReal), Keys[k])
                        = [i \in 1 .. Len(BucketState(r, gbuf_idx, bucket_idx)) |-> Read(i)]
            /\ tensors'[r] = tensors[r]
            /\ tensors'[r] = MainTensors(param_groups, gbuf_ranges[r])]_vars

\* A rank has restored a bucket whose two parameters were separated by an
\* inter-parameter gap and followed by a tail gap.
C13_Witness ==
    \E r \in Ranks :
        /\ pc[r] = "loaded"
        /\ loader[r] = "load_parameter_state_from_fs_bucket_space"
        /\ \E n \in 1 .. Len(BucketsInOrder) :
            LET blocks == BlocksOf(r, BucketsInOrder[n][1], BucketsInOrder[n][2])
            IN  /\ Len(blocks) = 4
                /\ [i \in 1 .. 4 |-> blocks[i].padding] = <<FALSE, TRUE, FALSE, TRUE>>
        /\ tensors[r] = MainTensors(param_groups, gbuf_ranges[r])

\* The ranges in rank r's shard of the parameters it owns in a bucket, in the
\* order of the bucket's param_map.
OwnedLocalRanges(r, gbuf_idx, bucket_idx) ==
    LET param_map == gbuf_ranges[r][gbuf_idx][bucket_idx].param_map
        order == SortedSeq(DOMAIN param_map)
    IN  [i \in 1 .. Len(order) |-> param_map[order[i]].gbuf_local]

\* The number of gaps the padding pass is to fill in a bucket.
GapsOf(r, gbuf_idx, bucket_idx) ==
    LET owned == OwnedLocalRanges(r, gbuf_idx, bucket_idx)
    IN  Cardinality({i \in 1 .. (Len(owned) - 1) : owned[i + 1].start # owned[i].end})
        + (IF owned[Len(owned)].end # GbufLocalNumel(gbuf_idx, bucket_idx) THEN 1 ELSE 0)

\* Rank r holds the bucket-space param state it encoded.
EncodedBucketSpace(r) ==
    /\ pc[r] = "sharded"
    /\ param_state[r].param_state_sharding_type = "fully_sharded_bucket_space"

\* C14: in each bucket of the state of sharded_param_state_fs_bucket_space
\* the blocks tagged padding are as many as the pairs of consecutive owned
\* parameters with next.gbuf_local_start # prev.gbuf_local_end, plus one if
\* the last parameter does not end at the local shard length; each stands
\* between the two records it separates, spanning [prev.end, next.start), or
\* at the end, spanning [last.end, shard length); the real records are tagged
\* padding = False and keep their order.
C14_PaddingBlocks ==
    \A r \in Ranks :
        EncodedBucketSpace(r) =>
            \A n \in 1 .. Len(BucketsInOrder) :
                LET gbuf_idx == BucketsInOrder[n][1]
                    bucket_idx == BucketsInOrder[n][2]
                    blocks == BlocksOf(r, gbuf_idx, bucket_idx)
                    IsPadding(block) == block.padding
                    IsReal(block) == ~ block.padding
                    SpanOf(block) == block.param.flattened_range
                IN  /\ Len(SelectSeq(blocks, IsPadding)) = GapsOf(r, gbuf_idx, bucket_idx)
                    /\ \A j \in 1 .. Len(blocks) :
                        blocks[j].padding =>
                            /\ j > 1
                            /\ ~ blocks[j - 1].padding
                            /\ IF j < Len(blocks)
                               THEN /\ ~ blocks[j + 1].padding
                                    /\ SpanOf(blocks[j]) =
                                            Range(SpanOf(blocks[j - 1]).end,
                                                  SpanOf(blocks[j + 1]).start)
                               ELSE SpanOf(blocks[j]) =
                                        Range(SpanOf(blocks[j - 1]).end,
                                              GbufLocalNumel(gbuf_idx, bucket_idx))
                    /\ [i \in 1 .. Len(SelectSeq(blocks, IsReal)) |->
                            SpanOf(SelectSeq(blocks, IsReal)[i])]
                            = OwnedLocalRanges(r, gbuf_idx, bucket_idx)
                    /\ \A k \in 1 .. Len(Keys) :
                        DataOf(SelectSeq(blocks, IsReal), Keys[k])
                            = [i \in 1 .. Len(BucketState(r, gbuf_idx, bucket_idx)) |->
                                    BucketState(r, gbuf_idx, bucket_idx)[i][Keys[k]]]

\* A rank has encoded a bucket with a gap between its two parameters and a
\* gap after the last one.
C14_Witness ==
    \E r \in Ranks :
        /\ EncodedBucketSpace(r)
        /\ \E n \in 1 .. Len(BucketsInOrder) :
            LET blocks == BlocksOf(r, BucketsInOrder[n][1], BucketsInOrder[n][2])
            IN  /\ GapsOf(r, BucketsInOrder[n][1], BucketsInOrder[n][2]) = 2
                /\ [i \in 1 .. Len(blocks) |-> blocks[i].padding]
                        = <<FALSE, TRUE, FALSE, TRUE>>

\* Rank r, off the Megatron-FSDP code path, is asked for the model-space
\* param state.
ModelSpaceRequested(r) ==
    /\ sharding_type = "fully_sharded_model_space"
    /\ ~ with_megatron_fsdp_code_path
    /\ pc[r] \notin {"start", "TypeError"}

\* Rank r holds the model-space param state it built.
EncodedModelSpace(r) ==
    /\ ModelSpaceRequested(r)
    /\ param_state[r] # <<>>

\* The parameters rank r owns, in the order of the loops.
OwnedInOrder(r) == LocalParamsInOrder(gbuf_ranges[r])

\* C15: every sharded tensor of sharded_param_state_fs_model_space (off the
\* Megatron-FSDP code path) carries the replica_id of the parameter's model
\* metadata with the first two coordinates unchanged and the third set to 0,
\* and the parameter's owned 'param' range as its flattened_range; when the
\* metadata of an owned parameter has a replica_id whose length is not 3 the
\* call fails and returns no state.
C15_ModelSpaceTensors ==
    \A r \in Ranks :
        /\ EncodedModelSpace(r) =>
            /\ Len(param_state[r].param_state) = Len(OwnedInOrder(r))
            /\ \A param_idx \in 1 .. Len(OwnedInOrder(r)) :
                LET model_param == OwnedInOrder(r)[param_idx]
                    metadata == model_sharded_state_dict[r][model_param]
                    emitted == param_state[r].param_state[param_idx]
                IN  \A state_key \in {"fp32_param", "exp_avg", "exp_avg_sq"} :
                        /\ Len(emitted[state_key].replica_id) = 3
                        /\ emitted[state_key].replica_id[1] = metadata.replica_id[1]
                        /\ emitted[state_key].replica_id[2] = metadata.replica_id[2]
                        /\ emitted[state_key].replica_id[3] = 0
                        /\ emitted[state_key].flattened_range
                                = ModelParamRangeMap(gbuf_ranges[r], model_param).param
        /\ (/\ ModelSpaceRequested(r)
            /\ \E i \in 1 .. Len(OwnedInOrder(r)) :
                /\ OwnedInOrder(r)[i] \in DOMAIN model_sharded_state_dict[r]
                /\ Len(model_sharded_state_dict[r][OwnedInOrder(r)[i]].replica_id) # 3)
            => /\ pc[r] \in {"ready", "AssertionError", "ValueError"}
               /\ param_state[r] = <<>>

\* One rank has emitted the tensors of a parameter whose metadata gives a
\* nonzero data-parallel coordinate and whose owned range does not start the
\* parameter, and a rank has failed on a replica_id of length 2.
C15_Witness ==
    /\ \E r \in Ranks :
        /\ EncodedModelSpace(r)
        /\ \E param_idx \in 1 .. Len(OwnedInOrder(r)) :
            /\ model_sharded_state_dict[r][OwnedInOrder(r)[param_idx]].replica_id[3] # 0
            /\ param_state[r].param_state[param_idx].exp_avg.replica_id[3] = 0
            /\ param_state[r].param_state[param_idx].exp_avg.flattened_range.start > 0
    /\ \E r \in Ranks :
        /\ ModelSpaceRequested(r)
        /\ pc[r] = "AssertionError"
        /\ \E i \in 1 .. Len(OwnedInOrder(r)) :
            /\ OwnedInOrder(r)[i] \in DOMAIN model_sharded_state_dict[r]
            /\ Len(model_sharded_state_dict[r][OwnedInOrder(r)[i]].replica_id) = 2

\* The owned parameters of rank r that the model's sharded state dict lacks.
OwnedWithoutMetadata(r) ==
    {i \in 1 .. Len(OwnedInOrder(r)) :
        OwnedInOrder(r)[i] \notin DOMAIN model_sharded_state_dict[r]}

\* The helper passes for the owned parameters the loops reach before the
\* i-th.
NoEarlierFailure(r, i) ==
    \A j \in 1 .. (i - 1) :
        /\ OwnedInOrder(r)[j] \in DOMAIN model_sharded_state_dict[r]
        /\ Len(model_sharded_state_dict[r][OwnedInOrder(r)[j]].replica_id) = 3

\* C16: under the model-space encoding, when an owned parameter has no entry
\* in the model's sharded state dict the call fails and returns no state;
\* the failure for the first parameter the loops cannot serve is the
\* ValueError that names it, and a ValueError always names an owned parameter
\* without an entry.
C16_MissingMetadata ==
    \A r \in Ranks :
        (ModelSpaceRequested(r) /\ OwnedWithoutMetadata(r) # {}) =>
            /\ pc[r] \in {"ready", "ValueError", "AssertionError"}
            /\ param_state[r] = <<>>
            /\ \A i \in OwnedWithoutMetadata(r) :
                (pc[r] # "ready" /\ NoEarlierFailure(r, i)) =>
                    /\ pc[r] = "ValueError"
                    /\ raised[r] = <<"ValueError", OwnedInOrder(r)[i]>>
            /\ pc[r] = "ValueError" =>
                \E i \in OwnedWithoutMetadata(r) :
                    raised[r] = <<"ValueError", OwnedInOrder(r)[i]>>

\* A rank that owns two parameters, the second without an entry, has failed
\* with the ValueError naming the second.
C16_Witness ==
    \E r \in Ranks :
        /\ ModelSpaceRequested(r)
        /\ OwnedWithoutMetadata(r) = {2}
        /\ pc[r] = "ValueError"
        /\ raised[r] = <<"ValueError", OwnedInOrder(r)[2]>>
        /\ param_state[r] = <<>>

\* The loader named after each of the three known tags.
LoaderNamed ==
    [tag \in ShardingTypes |->
        IF tag = "dp_zero_gather_scatter" THEN "load_parameter_state_from_dp_zero"
        ELSE IF tag = "fully_sharded_bucket_space"
        THEN "load_parameter_state_from_fs_bucket_space"
        ELSE "load_parameter_state_from_fs_model_space"]

\* Rank r has called load_state_dict with a state_dict holding a param state.
LoadCalled(r) == checkpoint_sharding_type[r] # "none"

\* Rank r has called sharded_state_dict, or is about to.
AfterConstruction(r) == pc[r] \notin {"start", "TypeError"}

\* C17 as stated: load_state_dict invokes exactly the loader named after the
\* tag when the tag is one of the three and fails with NotImplementedError,
\* invoking no loader, for any other tag; sharded_state_dict fails with
\* NotImplementedError for an unknown sharding_type and otherwise tags its
\* result with the requested type.
C17_DispatchAsStated ==
    \A r \in Ranks :
        /\ LoadCalled(r) =>
            IF checkpoint_sharding_type[r] \in ShardingTypes
            THEN loader[r] = LoaderNamed[checkpoint_sharding_type[r]]
            ELSE pc[r] = "NotImplementedError" /\ loader[r] = "none"
        /\ (AfterConstruction(r) /\ sharding_type \notin ShardingTypes) =>
            /\ pc[r] \in {"ready", "NotImplementedError"}
            /\ param_state[r] = <<>>
        /\ param_state[r] # <<>> =>
            param_state[r].param_state_sharding_type = sharding_type

\* C17 as amended: off the Megatron-FSDP code path load_state_dict invokes
\* exactly the loader named after the tag and fails with NotImplementedError,
\* invoking no loader, for any other tag; on that path every tag other than
\* fully_sharded_model_space fails with AssertionError, a known or unknown
\* one alike, and no loader is invoked.  sharded_state_dict fails for an
\* unknown sharding_type with NotImplementedError off that path and with
\* AssertionError on it, where it also fails with AssertionError for the two
\* known types other than fully_sharded_model_space; a result it returns is
\* tagged with the requested type.
C17_Dispatch ==
    \A r \in Ranks :
        /\ LoadCalled(r) =>
            IF /\ with_megatron_fsdp_code_path
               /\ checkpoint_sharding_type[r] # "fully_sharded_model_space"
            THEN pc[r] = "AssertionError" /\ loader[r] = "none"
            ELSE IF checkpoint_sharding_type[r] \in ShardingTypes
            THEN loader[r] = LoaderNamed[checkpoint_sharding_type[r]]
            ELSE pc[r] = "NotImplementedError" /\ loader[r] = "none"
        /\ (AfterConstruction(r) /\ sharding_type \notin ShardingTypes) =>
            /\ pc[r] \in {"ready", IF with_megatron_fsdp_code_path
                                   THEN "AssertionError"
                                   ELSE "NotImplementedError"}
            /\ param_state[r] = <<>>
        /\ (/\ AfterConstruction(r)
            /\ with_megatron_fsdp_code_path
            /\ sharding_type # "fully_sharded_model_space") =>
            /\ pc[r] \in {"ready", "AssertionError"}
            /\ param_state[r] = <<>>
        /\ param_state[r] # <<>> =>
            param_state[r].param_state_sharding_type = sharding_type

\* One rank has had its bucket-space state loaded by the bucket-space loader
\* while another, handed an unknown tag, has failed with NotImplementedError
\* and no loader invoked.
C17_Witness ==
    \E r, q \in Ranks :
        /\ checkpoint_sharding_type[r] = "fully_sharded_bucket_space"
        /\ loader[r] = "load_parameter_state_from_fs_bucket_space"
        /\ pc[r] = "loaded"
        /\ checkpoint_sharding_type[q] = UnknownShardingType
        /\ pc[q] = "NotImplementedError"
        /\ loader[q] = "none"
        /\ param_state[q].param_state_sharding_type = "fully_sharded_bucket_space"

\* The parameters the ranges of rank r give it a shard of, whether or not
\* its construction succeeded.
OwnedByLayout(r) ==
    LET ranges == [gbuf_idx \in 1 .. Len(buffers) |->
                        BuildGbufRangeMap(buffers[gbuf_idx], data_parallel_world_size, r)]
        owned == LocalParamsInOrder(ranges)
    IN  {owned[i] : i \in 1 .. Len(owned)}

TypeOfParam(param) == buffers[param[1]].type

\* The entries of one of the five lists, over all groups, that belong to a
\* parameter.
EntriesFor(r, list, param) ==
    LET entries == Concat(shard_groups[r][list])
    IN  {i \in 1 .. Len(entries) : entries[i].param = param}

ModelEntriesFor(r, list, param) ==
    LET entries == Concat(shard_groups[r][list])
    IN  {i \in 1 .. Len(entries) : entries[i] = param}

\* C18: _build_model_and_main_param_groups fails with a TypeError naming the
\* offending type when the rank owns a parameter whose type is none of Half,
\* BFloat16 and Float32; otherwise a Half or BFloat16 parameter gets a shard
\* view and a separate float32 copy, and a Float32 parameter only the shard
\* view.
C18_ParamTypes ==
    \A r \in Ranks :
        (pc[r] # "start" /\ ~ with_megatron_fsdp_code_path) =>
            LET offending ==
                    {param \in OwnedByLayout(r) :
                        TypeOfParam(param) \notin {"torch.cuda.HalfTensor",
                                                   "torch.cuda.BFloat16Tensor",
                                                   "torch.cuda.FloatTensor"}}
            IN  IF offending # {}
                THEN /\ pc[r] = "TypeError"
                     /\ \E param \in offending :
                            raised[r] = <<"TypeError", TypeOfParam(param)>>
                     /\ shard_groups[r] = <<>>
                ELSE /\ pc[r] # "TypeError"
                     /\ \A param \in OwnedByLayout(r) :
                        LET view == [data |-> "model_param", param |-> param,
                                     range |-> ModelParamRangeMap(gbuf_ranges[r],
                                                                  param).param,
                                     type |-> TypeOfParam(param)]
                            copy == [view EXCEPT !.data = "clone",
                                                 !.type = "torch.cuda.FloatTensor"]
                            Holds(list, entry) ==
                                \E i \in 1 .. Len(Concat(shard_groups[r][list])) :
                                    Concat(shard_groups[r][list])[i] = entry
                        IN  IF TypeOfParam(param) = "torch.cuda.FloatTensor"
                            THEN /\ Cardinality(ModelEntriesFor(r, "model_fp32_groups",
                                                                param)) = 1
                                 /\ Cardinality(EntriesFor(r, "shard_fp32_groups",
                                                           param)) = 1
                                 /\ Holds("shard_fp32_groups", view)
                                 /\ ModelEntriesFor(r, "model_float16_groups", param) = {}
                                 /\ EntriesFor(r, "shard_float16_groups", param) = {}
                                 /\ EntriesFor(r, "shard_fp32_from_float16_groups",
                                               param) = {}
                            ELSE /\ Cardinality(ModelEntriesFor(r, "model_float16_groups",
                                                                param)) = 1
                                 /\ Cardinality(EntriesFor(r, "shard_float16_groups",
                                                           param)) = 1
                                 /\ Holds("shard_float16_groups", view)
                                 /\ Cardinality(EntriesFor(
                                        r, "shard_fp32_from_float16_groups", param)) = 1
                                 /\ Holds("shard_fp32_from_float16_groups", copy)
                                 /\ ModelEntriesFor(r, "model_fp32_groups", param) = {}
                                 /\ EntriesFor(r, "shard_fp32_groups", param) = {}

\* In a group of two ranks one has built the view and the float32 copy of a
\* BFloat16 parameter while the other, owning a DoubleTensor parameter, has
\* failed with the TypeError naming that type.
C18_Witness ==
    \E r, q \in Ranks :
        /\ pc[r] = "ready"
        /\ \E param \in OwnedByLayout(r) :
            /\ TypeOfParam(param) = "torch.cuda.BFloat16Tensor"
            /\ EntriesFor(r, "shard_fp32_from_float16_groups", param) # {}
        /\ pc[q] = "TypeError"
        /\ raised[q] = <<"TypeError", "torch.cuda.DoubleTensor">>

(***************************************************************************)
(* Properties of split_state_dict_if_needed (checked under SpecSplit).     *)
(***************************************************************************)
RunHasFp8Buffer == \E g \in 1 .. Len(buffers) : buffers[g].is_float8tensor

\* The state_dict holds a dtype key whose parameter dtype is torch.uint8.
CheckpointHasUint8Key ==
    \E i \in 1 .. Len(state_dict) :
        /\ state_dict[i].key = "gbuf"
        /\ state_dict[i].dtype[1] = "torch.uint8"

\* No dtype comes twice among the keys ahead of the first torch.uint8 one.
NoRepeatedDtypeAhead ==
    \A i, j \in 1 .. Len(state_dict) :
        (/\ i < j
         /\ state_dict[i].key = "gbuf"
         /\ state_dict[j].key = "gbuf"
         /\ \A k \in 1 .. j : state_dict[k].key = "gbuf" =>
                state_dict[k].dtype[1] # "torch.uint8")
            => state_dict[i].dtype # state_dict[j].dtype

SplitCalled(r) == pc[r] = "start" /\ pc'[r] # "start"

\* C20 as stated: when the run has an fp8 buffer and the state_dict holds a
\* dtype key whose parameter dtype is torch.uint8, split_state_dict_if_needed
\* returns without error and leaves state_dict unchanged; it also leaves
\* state_dict unchanged when the run has no fp8 buffer.
C20_SplitAsStated ==
    [][\A r \in Ranks :
        SplitCalled(r) =>
            /\ (RunHasFp8Buffer /\ CheckpointHasUint8Key) =>
                    pc'[r] = "returned" /\ state_dict' = state_dict
            /\ ~ RunHasFp8Buffer => state_dict' = state_dict]_vars

\* What holds of the code: the call returns without error when the run has
\* no fp8 buffer, or when the torch.uint8 key is reached before any dtype
\* comes a second time; state_dict is left unchanged by every call.
C20_SplitReturnsUnlessRepeatedDtype ==
    [][\A r \in Ranks :
        SplitCalled(r) =>
            /\ (RunHasFp8Buffer /\ CheckpointHasUint8Key /\ NoRepeatedDtypeAhead) =>
                    pc'[r] = "returned"
            /\ ~ RunHasFp8Buffer => pc'[r] = "returned"
            /\ state_dict' = state_dict]_vars

\* The parameters of a group range of rank r that come, in the order the
\* loops collected them, after a Half or BFloat16 parameter while being
\* Float32 themselves.
Float32AfterFloat16(r) ==
    {i \in 1 .. Len(opt_group_ranges[r]) :
        \E a, b \in 1 .. Len(opt_group_ranges[r][i].params) :
            /\ a < b
            /\ IsFloat16(buffers, opt_group_ranges[r][i].params[a])
            /\ IsFloat32(buffers, opt_group_ranges[r][i].params[b])}

\* C24 as stated: after construction, for every owned model parameter p with
\* (g, o) = model_param_group_index_map[p], optimizer.param_groups[g]
\* ['params'][o] is the main shard materialized from p, whatever the types
\* of the parameters of the group and their order.
C24_MainParamOfOwnParam ==
    \A r \in Ranks :
        Constructed(r) =>
            \A param \in DOMAIN model_param_group_index_map[r] :
                MainParamOf(r, param) = param

\* What holds of the code: the entry is the main shard of p in every group
\* range in which no Float32 parameter comes after a Half or BFloat16 one.
C24_MainParamUnlessFloat32AfterFloat16 ==
    \A r \in Ranks :
        Constructed(r) =>
            \A param \in DOMAIN model_param_group_index_map[r] :
                model_param_group_index_map[r][param][1] \notin Float32AfterFloat16(r)
                    => MainParamOf(r, param) = param

\* The spans of the blocks of a bucket, in order.
SpansOf(blocks) == [i \in 1 .. Len(blocks) |-> blocks[i].param.flattened_range]

\* The spans tile [0, numel): the first starts at 0, each starts where the
\* previous one ends, and the last ends at numel.
Tiles(spans, numel) ==
    /\ spans # <<>>
    /\ spans[1].start = 0
    /\ \A i \in 1 .. (Len(spans) - 1) : spans[i + 1].start = spans[i].end
    /\ spans[Len(spans)].end = numel

\* C25 as stated: after the padding-fill pass of
\* sharded_param_state_fs_bucket_space the blocks of each bucket, real and
\* padding together, cover the rank's local shard [0, gbuf_local_numel) with
\* no gap and no overlap.
C25_BlocksCoverShard ==
    \A r \in Ranks :
        EncodedBucketSpace(r) =>
            \A n \in 1 .. Len(BucketsInOrder) :
                Tiles(SpansOf(BlocksOf(r, BucketsInOrder[n][1], BucketsInOrder[n][2])),
                      GbufLocalNumel(BucketsInOrder[n][1], BucketsInOrder[n][2]))

\* What holds of the code: the blocks tile the span from the start of the
\* first owned parameter to the end of the shard; what precedes the first
\* owned parameter is covered by no block.
C25_BlocksCoverFromFirstParam ==
    \A r \in Ranks :
        EncodedBucketSpace(r) =>
            \A n \in 1 .. Len(BucketsInOrder) :
                LET gbuf_idx == BucketsInOrder[n][1]
                    bucket_idx == BucketsInOrder[n][2]
                    spans == SpansOf(BlocksOf(r, gbuf_idx, bucket_idx))
                IN  /\ spans[1] = OwnedLocalRanges(r, gbuf_idx, bucket_idx)[1]
                    /\ \A i \in 1 .. (Len(spans) - 1) : spans[i + 1].start = spans[i].end
                    /\ spans[Len(spans)].end = GbufLocalNumel(gbuf_idx, bucket_idx)

\* Rank r, off the Megatron-FSDP code path, is asked for the bucket-space
\* param state.
BucketSpaceRequested(r) ==
    /\ sharding_type = "fully_sharded_bucket_space"
    /\ ~ with_megatron_fsdp_code_path
    /\ pc[r] \notin {"start", "TypeError"}

\* The buckets, by their place in the order of the loops, in which rank r
\* owns no parameter.
BucketsWithoutOwned(r) ==
    {n \in 1 .. Len(BucketsInOrder) :
        DOMAIN gbuf_ranges[r][BucketsInOrder[n][1]][BucketsInOrder[n][2]].param_map = {}}

\* The main param looked up for each parameter rank r owns in the buckets
\* ahead of the n-th has the size of the parameter's range in the shard.
ShapesMatchAhead(r, n) ==
    \A m \in 1 .. (n - 1) :
        LET param_map == gbuf_ranges[r][BucketsInOrder[m][1]][BucketsInOrder[m][2]].param_map
        IN  \A p \in DOMAIN param_map :
                Len(tensors[r][MainParamOf(r, <<BucketsInOrder[m][1], p>>)].param)
                    = param_map[p].gbuf_local.size

\* C26: sharded_param_state_fs_bucket_space fails on a rank that owns no
\* parameter in some bucket, with the assertion 'empty bucket encountered'
\* once the loops reach the first such bucket, and returns no state.
C26_EmptyBucketFails ==
    \A r \in Ranks :
        (BucketSpaceRequested(r) /\ BucketsWithoutOwned(r) # {}) =>
            /\ pc[r] \in {"ready", "AssertionError"}
            /\ param_state[r] = <<>>
            /\ (/\ pc[r] = "AssertionError"
                /\ \E n \in BucketsWithoutOwned(r) :
                    /\ \A m \in BucketsWithoutOwned(r) : n <= m
                    /\ ShapesMatchAhead(r, n))
                => raised[r] = <<"AssertionError", "empty bucket encountered">>

\* In a group of two ranks one has encoded its buckets while the other, whose
\* shard of a bucket holds only padding, has failed with the assertion.
C26_Witness ==
    \E r, q \in Ranks :
        /\ EncodedBucketSpace(r)
        /\ BucketSpaceRequested(q)
        /\ BucketsWithoutOwned(q) # {}
        /\ pc[q] = "AssertionError"
        /\ raised[q] = <<"AssertionError", "empty bucket encountered">>

\* Rank r, holding a model-space param state built off the Megatron-FSDP code
\* path, has load_state_dict invoke the model-space loader in this step.
LoadsModelSpace(r) ==
    /\ pc[r] = "sharded"
    /\ EncodedModelSpace(r)
    /\ loader[r] = "none"
    /\ loader'[r] = "load_parameter_state_from_fs_model_space"

\* C23: off the Megatron-FSDP code path the model-space save and load walk
\* the owned parameters in the same buffer, bucket and param-map order: the
\* save numbers its entries consecutively (0..n-1 in the code, 1..n here),
\* entry k holding the main param and optimizer state looked up for the k-th
\* owned parameter under that parameter's key, and the load copies entry k
\* into the main param and optimizer state looked up for that same parameter,
\* so that every tensor holds again what it held when saved.
C23_ModelSpaceSameOrder ==
    [][\A r \in Ranks :
        LoadsModelSpace(r) =>
            /\ DOMAIN param_state[r].param_state = 1 .. Len(OwnedInOrder(r))
            /\ \A k \in 1 .. Len(OwnedInOrder(r)) :
                LET model_param == OwnedInOrder(r)[k]
                    main_param == MainParamOf(r, model_param)
                    entry == param_state[r].param_state[k]
                IN  /\ \A state_key \in {"fp32_param", "exp_avg", "exp_avg_sq"} :
                        entry[state_key].key[3] = model_sharded_state_dict[r][model_param].key
                    /\ entry.fp32_param.data = tensors[r][main_param].param
                    /\ entry.exp_avg.data = tensors[r][main_param].exp_avg
                    /\ entry.exp_avg_sq.data = tensors[r][main_param].exp_avg_sq
                    /\ tensors'[r][main_param].param = entry.fp32_param.data
                    /\ tensors'[r][main_param].exp_avg = entry.exp_avg.data
                    /\ tensors'[r][main_param].exp_avg_sq = entry.exp_avg_sq.data
            /\ pc'[r] = "loaded"
            /\ tensors'[r] = tensors[r]]_vars

\* A rank has loaded a model-space state of two entries whose parameters own
\* ranges of one size in two different buckets.
C23_Witness ==
    \E r \in Ranks :
        /\ pc[r] = "loaded"
        /\ loader[r] = "load_parameter_state_from_fs_model_space"
        /\ EncodedModelSpace(r)
        /\ Len(OwnedInOrder(r)) = 2
        /\ OwnedInOrder(r)[1] # OwnedInOrder(r)[2]
        /\ Len(param_state[r].param_state[1].exp_avg.data)
                = Len(param_state[r].param_state[2].exp_avg.data)
        /\ tensors[r][MainParamOf(r, OwnedInOrder(r)[1])].exp_avg
                # tensors[r][MainParamOf(r, OwnedInOrder(r)[2])].exp_avg

(***************************************************************************)
(* Properties of the collectives of the dp_zero save and load.             *)
(***************************************************************************)
\* No rank has left a call with an exception.
NoneRaised ==
    \A r \in Ranks : pc[r] \notin {"AssertionError", "TypeError", "RuntimeError"}

\* Rank r waits in the n-th gather, or in the n-th scatter, of its call.
InGather(r, n) == pc[r] = "save" /\ in_collective[r] /\ step[r] = n
InScatter(r, n) == pc[r] = "load" /\ in_collective[r] /\ step[r] = n

\* Rank q has yet to issue the n-th gather, or scatter, as its next
\* collective.
GatherAhead(q, n) ==
    \/ pc[q] = "ready" /\ n = 1
    \/ pc[q] = "save" /\ ~ in_collective[q] /\ step[q] = n
ScatterAhead(q, n) ==
    \/ pc[q] \in {"saved", "restarted"} /\ n = 1
    \/ pc[q] = "load" /\ ~ in_collective[q] /\ step[q] = n

\* The collectives of all ranks are the same sequences, and a rank that
\* waits in its n-th collective is joined there by every other rank: each
\* other rank waits in its n-th too or has it as the next one to issue.
CollectivesMatched ==
    ((\A r \in Ranks : pc[r] # "start") /\ NoneRaised) =>
        \A r, q \in Ranks :
            /\ CollectivesOfSaveOn(r) = CollectivesOfSaveOn(q)
            /\ CollectivesOfLoadOn(r) = CollectivesOfLoadOn(q)
            /\ Len(CollectivesOfSaveOn(r)) = Len(CollectivesOfLoadOn(r))
            /\ \A n \in 1 .. Len(CollectivesOfSaveOn(r)) :
                /\ InGather(r, n) => InGather(q, n) \/ GatherAhead(q, n)
                /\ InScatter(r, n) => InScatter(q, n) \/ ScatterAhead(q, n)
            /\ pc[r] \in {"save", "load"} => step[r] \in 1 .. Len(CollectivesOfSaveOn(r))

\* A collective that every rank has entered returns on every rank, which
\* then moves on to its next collective or, after its last, returns from
\* the call.
CollectivesAdvance ==
    \A r \in Ranks :
        /\ (\A q \in Ranks : InGather(q, step[r])) =>
                \/ pc'[r] = "save" /\ ~ in_collective'[r] /\ step'[r] = step[r] + 1
                \/ pc'[r] = "saved" /\ step[r] = Len(CollectivesOfSaveOn(r))
                \/ UNCHANGED vars
        /\ ((\A q \in Ranks : InScatter(q, step[r])) /\ pc'[r] # "RuntimeError") =>
                \/ pc'[r] = "load" /\ ~ in_collective'[r] /\ step'[r] = step[r] + 1
                \/ pc'[r] = "loaded" /\ step[r] = Len(CollectivesOfLoadOn(r))
                \/ UNCHANGED vars

\* C30: when all ranks of the group call get_parameter_state_dp_zero
\* (respectively load_parameter_state_from_dp_zero) and no rank fails, every
\* rank issues the same gather (respectively scatter) collectives in the
\* same order whatever it owns, so every collective is entered by all ranks
\* and returns, and each rank returns from the call after its last one.
C30_CollectivesMatchedOnAllRanks == [] CollectivesMatched /\ [][CollectivesAdvance]_vars

\* Three ranks that own different numbers of parameters, one of them none
\* in one of two buckets, have all returned from the save and from the load.
C30_Witness ==
    /\ AllLoaded
    /\ data_parallel_world_size = 3
    /\ Len(CollectivesOfSave) = 6
    /\ \E r, q \in Ranks : Cardinality(OwnedParams(r)) < Cardinality(OwnedParams(q))
    /\ \E r \in Ranks : \E c \in 1 .. Len(CollectivesOfSave) :
            DOMAIN gbuf_ranges[r][CollectivesOfSave[c].gbuf_idx]
                        [CollectivesOfSave[c].bucket_idx].param_map = {}

(***************************************************************************)
(* DistributedOptimizer.load_parameter_state with update_legacy_format,    *)
(* that is load_parameter_state_from_dp_zero_legacy, and                   *)
(* DistributedOptimizer._update_legacy_world_tensors                       *)
(***************************************************************************)
LegacyMaxWorldSize == 2

\* load_parameter_state: state_dict is None unless the rank is DP rank 0,
\* which reads the file.
StateDictIsNone(r) == r # 0

\* sum([t.numel() for t in old_tensors])
SumNumels(tensor_list) == SumOf([i \in 1 .. Len(tensor_list) |-> Len(tensor_list[i])])

\* Mutant: start_idx is not advanced.
UpdateLegacyWorldTensorsFromZero(old_tensors, new_numels) ==
    [i \in 1 .. Len(new_numels) |-> Slice(Concat(old_tensors), 0, new_numels[i])]

\* _update_legacy_world_tensors, past its assertion: the slices of
\* torch.cat(old_tensors) of the target sizes, one after the other.
UpdateLegacyWorldTensors(old_tensors, new_numels) ==
    LET unified_tensor == Concat(old_tensors)
        start_idx(i) == SumOf([j \in 1 .. (i - 1) |-> new_numels[j]])
    IN  [i \in 1 .. Len(new_numels) |->
            Slice(unified_tensor, start_idx(i), start_idx(i) + new_numels[i])]

\* The target sizes the legacy load passes: the unpadded size of every bucket
\* of the buffer.
LegacyNewNumels(r, gbuf_idx) ==
    [bi \in 1 .. Len(gbuf_ranges[r][gbuf_idx]) |->
        buffers[gbuf_idx].buckets[bi].numel_unpadded]

\* What rank r raises on its way to the n-th scatter of the legacy load,
\* <<>> when it reaches the scatter: DP rank 0's assertion on the totals of
\* 'param' at the start of a buffer; at the start of a key the subscripting
\* of state_dict and the assertion of _update_legacy_world_tensors; DP rank
\* 0's assertion on the size of the bucket's tensor.
LegacyFailure(r, c) ==
    IF /\ r = 0 /\ c.key = "param" /\ c.bucket_idx = 1
       /\ SumOf(LegacyNewNumels(r, c.gbuf_idx)) # SumNumels(state_dict[c.gbuf_idx].param)
    THEN <<"AssertionError", "sum(model_numels) == sum(checkpoint_numels)">>
    ELSE IF c.bucket_idx = 1 /\ StateDictIsNone(r)
    THEN <<"TypeError", "'NoneType' object is not subscriptable">>
    ELSE IF /\ c.bucket_idx = 1
            /\ SumNumels(state_dict[c.gbuf_idx][c.key])
                    # SumOf(LegacyNewNumels(r, c.gbuf_idx))
    THEN <<"AssertionError", "old_total == new_total">>
    ELSE IF /\ r = 0
            /\ Len((IF c.bucket_idx = 1
                    THEN UpdateLegacyWorldTensors(state_dict[c.gbuf_idx][c.key],
                                                  LegacyNewNumels(r, c.gbuf_idx))
                    ELSE state[r])[c.bucket_idx])
                    # buffers[c.gbuf_idx].buckets[c.bucket_idx].numel_unpadded
    THEN <<"AssertionError", "world_tensor.numel() == gbuf_world_numel_unpadded">>
    ELSE <<>>

\* Rank r calls load_parameter_state with update_legacy_format, or goes on
\* in it, up to its next torch.distributed.scatter and enters it;
\* legacy_world_tensors is rebuilt at the start of every key.
LegacyLoadArrive(r) ==
    /\ pc[r] \in {"ready", "load"}
    /\ ~ in_collective[r]
    /\ LET n == IF pc[r] = "ready" THEN 1 ELSE step[r]
           c == CollectivesOfLoadOn(r)[n]
       IN  IF LegacyFailure(r, c) # <<>>
           THEN /\ pc' = [pc EXCEPT ![r] = LegacyFailure(r, c)[1]]
                /\ raised' = [raised EXCEPT ![r] = LegacyFailure(r, c)]
                /\ UNCHANGED <<step, in_collective, state>>
           ELSE /\ pc' = [pc EXCEPT ![r] = "load"]
                /\ step' = [step EXCEPT ![r] = n]
                /\ in_collective' = [in_collective EXCEPT ![r] = TRUE]
                /\ state' = IF c.bucket_idx = 1
                            THEN [state EXCEPT ![r] =
                                    UpdateLegacyWorldTensors(
                                        state_dict[c.gbuf_idx][c.key],
                                        LegacyNewNumels(r, c.gbuf_idx))]
                            ELSE state
                /\ UNCHANGED raised
    /\ loader' = [loader EXCEPT ![r] = "load_parameter_state_from_dp_zero_legacy"]
    /\ UNCHANGED <<layout_vars, range_vars, optimizer_vars, local_shards, state_dict,
                   param_state, checkpoint_sharding_type>>

\* send_tensors[r] of the legacy load: rank r's chunk of the bucket's tensor
\* padded at the back.
LegacySendTensor(gbuf_idx, bucket_idx, r) ==
    LET bucket == buffers[gbuf_idx].buckets[bucket_idx]
        gbuf_local_numel == GbufLocalNumel(gbuf_idx, bucket_idx)
    IN  Slice(PadBack(state[0][bucket_idx], bucket.numel - bucket.numel_unpadded),
              r * gbuf_local_numel, r * gbuf_local_numel + gbuf_local_numel)

\* The scatter of the legacy load completes once every rank of the group has
\* entered it; each rank then copies its recv_tensor into its shards.
LegacyScatter ==
    /\ \A r \in Ranks : pc[r] = "load" /\ in_collective[r]
    /\ LET n == step[0]
           c == CollectivesOfLoad[n]
           Copyable(r) == RecvCopyable(r, c.gbuf_idx, c.bucket_idx, c.key)
       IN  /\ \A r \in Ranks : step[r] = n
           /\ tensors' = [r \in Ranks |->
                    IF Copyable(r)
                    THEN TensorsAfterRecv(r, c.gbuf_idx, c.bucket_idx, c.key,
                                          LegacySendTensor(c.gbuf_idx, c.bucket_idx, r))
                    ELSE tensors[r]]
           /\ step' = [r \in Ranks |->
                    IF n = Len(CollectivesOfLoadOn(r)) \/ ~ Copyable(r) THEN 0 ELSE n + 1]
           /\ pc' = [r \in Ranks |->
                    IF ~ Copyable(r) THEN "RuntimeError"
                    ELSE IF n = Len(CollectivesOfLoadOn(r)) THEN "loaded" ELSE "load"]
    /\ in_collective' = [r \in Ranks |-> FALSE]
    /\ UNCHANGED <<layout_vars, range_vars, group_vars, local_shards, state_dict,
                   state, param_state, checkpoint_sharding_type, loader, raised>>

\* A value of a legacy checkpoint: element index of the buffer's key.
LegacyValue(key, gbuf_idx, index) == ValueOf(key, <<gbuf_idx, 0>>, index)

\* The sizes of a buffer's per-bucket tensors in a legacy checkpoint: one
\* bucket or two of the buffer's unpadded size in total, or one element more.
LegacyNumels(numel_unpadded) ==
    {<<numel_unpadded>>, <<numel_unpadded + 1>>}
    \cup (IF numel_unpadded > 1 THEN {<<1, numel_unpadded - 1>>} ELSE {})

\* The list of tensors of the given sizes that holds the key's elements in
\* order.
LegacyTensors(key, gbuf_idx, numels) ==
    [b \in 1 .. Len(numels) |->
        [i \in 1 .. numels[b] |->
            LegacyValue(key, gbuf_idx,
                        SumOf([j \in 1 .. (b - 1) |-> numels[j]]) + i - 1)]]

\* The legacy checkpoints offered to a run with the given buffers.
LegacyCheckpoints(bufs) ==
    {[gbuf_idx \in 1 .. Len(bufs) |->
        [param |-> LegacyTensors("param", gbuf_idx, numels[gbuf_idx][1]),
         exp_avg |-> LegacyTensors("exp_avg", gbuf_idx, numels[gbuf_idx][2]),
         exp_avg_sq |-> LegacyTensors("exp_avg_sq", gbuf_idx, numels[gbuf_idx][3])]] :
     numels \in {f \in [1 .. Len(bufs) ->
                        UNION {[1 .. 3 -> LegacyNumels(bufs[g].numel_unpadded)] :
                                    g \in 1 .. Len(bufs)}] :
                    \A g \in 1 .. Len(bufs) : \A k \in 1 .. 3 :
                        f[g][k] \in LegacyNumels(bufs[g].numel_unpadded)}}

InitLegacy ==
    /\ data_parallel_world_size \in 1 .. LegacyMaxWorldSize
    /\ buffers \in {bufs \in BufferLayouts(data_parallel_world_size) : Len(bufs) = 1}
    /\ param_groups \in ParamGroupings(buffers)
    /\ with_megatron_fsdp_code_path = FALSE
    /\ sharding_type = "dp_zero_gather_scatter"
    /\ model_sharded_state_dict = <<>>
    /\ state_dict \in LegacyCheckpoints(buffers)
    /\ pc = [r \in Ranks |-> "start"]
    /\ range_locals = [r \in Ranks |-> <<>>]
    /\ gbuf_ranges = [r \in Ranks |-> <<>>]
    /\ model_param_group_index_map = [r \in Ranks |-> <<>>]
    /\ optimizer_param_groups = [r \in Ranks |-> <<>>]
    /\ tensors = [r \in Ranks |-> <<>>]
    /\ step = [r \in Ranks |-> 0]
    /\ in_collective = [r \in Ranks |-> FALSE]
    /\ local_shards = [r \in Ranks |-> <<>>]
    /\ opt_group_ranges = [r \in Ranks |-> <<>>]
    /\ shard_groups = [r \in Ranks |-> <<>>]
    /\ state = [r \in Ranks |-> <<>>]
    /\ param_state = [r \in Ranks |-> <<>>]
    /\ checkpoint_sharding_type = [r \in Ranks |-> "none"]
    /\ loader = [r \in Ranks |-> "none"]
    /\ raised = [r \in Ranks |-> <<>>]

NextLegacy ==
    \/ \E r \in Ranks : Construct(r)
    \/ \E r \in Ranks : LegacyLoadArrive(r)
    \/ LegacyScatter

SpecLegacy == InitLegacy /\ [][NextLegacy]_vars

\* Rank r has called the legacy load.
LegacyLoadCalled(r) == loader[r] = "load_parameter_state_from_dp_zero_legacy"

\* C27 (as stated): in load_parameter_state_from_dp_zero_legacy only DP rank
\* 0 reads the checkpoint state_dict: a rank other than DP rank 0, called
\* with state_dict = None, does not fail; it waits in a scatter or has
\* completed the load.
C27_NonRootCompletesLegacyLoad ==
    \A r \in Ranks :
        (r # 0 /\ LegacyLoadCalled(r)) => pc[r] \in {"load", "loaded"}

\* Every rank other than DP rank 0 that calls the legacy load fails on
\* subscripting None before its first scatter.
C27_NonRootRaisesTypeError ==
    \A r \in Ranks :
        (r # 0 /\ LegacyLoadCalled(r)) =>
            /\ pc[r] = "TypeError"
            /\ raised[r] = <<"TypeError", "'NoneType' object is not subscriptable">>

\* DP rank 0, past the assertion on the totals of 'param', calls
\* _update_legacy_world_tensors for the key of its next collective in this
\* step.
CallsUpdateLegacyWorldTensors(c) ==
    /\ pc[0] \in {"ready", "load"}
    /\ ~ in_collective[0]
    /\ c = CollectivesOfLoadOn(0)[IF pc[0] = "ready" THEN 1 ELSE step[0]]
    /\ c.bucket_idx = 1
    /\ pc'[0] # pc[0] \/ in_collective'[0]
    /\ raised'[0] # <<"AssertionError", "sum(model_numels) == sum(checkpoint_numels)">>

\* C28: _update_legacy_world_tensors fails on its assertion when the total
\* size of the old tensors differs from the sum of the target sizes;
\* otherwise it returns one tensor per target size, the i-th of length
\* new_numels[i], and their concatenation is the concatenation of the old
\* tensors.
C28_UpdateLegacyWorldTensors ==
    [][\A c \in {CollectivesOfLoadOn(0)[n] : n \in 1 .. Len(CollectivesOfLoadOn(0))} :
        CallsUpdateLegacyWorldTensors(c) =>
            LET old_tensors == state_dict[c.gbuf_idx][c.key]
                new_numels == [b \in 1 .. Len(buffers[c.gbuf_idx].buckets) |->
                                    buffers[c.gbuf_idx].buckets[b].numel_unpadded]
            IN  IF SumNumels(old_tensors) # SumOf(new_numels)
                THEN /\ pc'[0] = "AssertionError"
                     /\ raised'[0] = <<"AssertionError", "old_total == new_total">>
                     /\ state' = state
                ELSE /\ pc'[0] = "load"
                     /\ Len(state'[0]) = Len(new_numels)
                     /\ \A i \in 1 .. Len(new_numels) : Len(state'[0][i]) = new_numels[i]
                     /\ Concat(state'[0]) = Concat(old_tensors)]_vars

\* DP rank 0 holds two tensors resharded from two old tensors of other
\* sizes.
C28_Witness ==
    /\ pc[0] = "load"
    /\ LegacyLoadCalled(0)
    /\ LET c == CollectivesOfLoadOn(0)[step[0]]
           old_tensors == state_dict[c.gbuf_idx][c.key]
       IN  /\ Len(state[0]) = 2
           /\ Len(old_tensors) = 2
           /\ Len(state[0][1]) # Len(old_tensors[1])
           /\ Concat(state[0]) = Concat(old_tensors)

(***************************************************************************)
(* DistributedOptimizer.load_parameter_state: a run that loads a dp_zero   *)
(* checkpoint file it did not write itself.                                *)
(***************************************************************************)
LoadMaxWorldSize == 2

\* The coalesced state of one buffer in a checkpoint written with the given
\* unpadded size.
CheckpointWorldTensors(gbuf_idx, numel_unpadded) ==
    [param |-> [i \in 1 .. numel_unpadded |-> ValueOf("param", <<gbuf_idx, 0>>, i - 1)],
     exp_avg |-> [i \in 1 .. numel_unpadded |-> ValueOf("exp_avg", <<gbuf_idx, 0>>, i - 1)],
     exp_avg_sq |->
        [i \in 1 .. numel_unpadded |-> ValueOf("exp_avg_sq", <<gbuf_idx, 0>>, i - 1)],
     numel_unpadded |-> numel_unpadded]

\* The checkpoints offered to a run with the given buffers: each buffer's
\* state was written with the buffer's unpadded size or with one element
\* more or less.
CheckpointsOnDisk(bufs) ==
    {[gbuf_idx \in 1 .. Len(bufs) |->
            CheckpointWorldTensors(gbuf_idx, bufs[gbuf_idx].numel_unpadded + diff[gbuf_idx])] :
        diff \in {d \in [1 .. Len(bufs) -> {-1, 0, 1}] :
                    \A g \in 1 .. Len(bufs) : bufs[g].numel_unpadded + d[g] > 0}}

InitLoad ==
    /\ data_parallel_world_size \in 1 .. LoadMaxWorldSize
    /\ buffers \in BufferLayouts(data_parallel_world_size)
    /\ param_groups \in ParamGroupings(buffers)
    /\ with_megatron_fsdp_code_path = FALSE
    /\ sharding_type = "dp_zero_gather_scatter"
    /\ model_sharded_state_dict = <<>>
    /\ state_dict \in CheckpointsOnDisk(buffers)
    /\ pc = [r \in Ranks |-> "start"]
    /\ range_locals = [r \in Ranks |-> <<>>]
    /\ gbuf_ranges = [r \in Ranks |-> <<>>]
    /\ model_param_group_index_map = [r \in Ranks |-> <<>>]
    /\ optimizer_param_groups = [r \in Ranks |-> <<>>]
    /\ tensors = [r \in Ranks |-> <<>>]
    /\ step = [r \in Ranks |-> 0]
    /\ in_collective = [r \in Ranks |-> FALSE]
    /\ local_shards = [r \in Ranks |-> <<>>]
    /\ opt_group_ranges = [r \in Ranks |-> <<>>]
    /\ shard_groups = [r \in Ranks |-> <<>>]
    /\ state = [r \in Ranks |-> <<>>]
    /\ param_state = [r \in Ranks |-> <<>>]
    /\ checkpoint_sharding_type = [r \in Ranks |-> "none"]
    /\ loader = [r \in Ranks |-> "none"]
    /\ raised = [r \in Ranks |-> <<>>]

\* Rank r calls load_parameter_state, which hands the file's state_dict (on
\* DP rank 0) to load_parameter_state_from_dp_zero.
LoadParameterState(r) ==
    /\ pc[r] = "ready"
    /\ loader' = [loader EXCEPT ![r] = "load_parameter_state_from_dp_zero"]
    /\ pc' = [pc EXCEPT ![r] = "restarted"]
    /\ UNCHANGED <<layout_vars, range_vars, optimizer_vars, step, in_collective,
                   local_shards, state_dict, state, param_state,
                   checkpoint_sharding_type, raised>>

NextLoad ==
    \/ \E r \in Ranks : Construct(r)
    \/ \E r \in Ranks : LoadParameterState(r)
    \/ \E r \in Ranks : LoadArrive(r)
    \/ Scatter

SpecLoad == InitLoad /\ [][NextLoad]_vars

\* The checkpoint's numel_unpadded of some buffer is not the live buffer's.
NumelUnpaddedDisagrees ==
    \E gbuf_idx \in 1 .. Len(buffers) :
        state_dict[gbuf_idx].numel_unpadded # buffers[gbuf_idx].numel_unpadded

\* Rank r waits in a scatter.
BlockedInScatter(r) == pc[r] = "load" /\ in_collective[r]

\* C22 (as stated): if during load_parameter_state_from_dp_zero the
\* checkpoint's numel_unpadded disagrees with the live buffer's, the load
\* aborts with the size-mismatch failure and the failure reaches every rank:
\* once DP rank 0 has aborted, no rank waits in a scatter.
C22_FailureReachesEveryRank ==
    (NumelUnpaddedDisagrees /\ pc[0] = "AssertionError") =>
        \A r \in Ranks : ~ BlockedInScatter(r)

\* What the code does on a disagreement: DP rank 0 alone aborts, at the
\* first buffer that disagrees, and no other rank ever fails or completes.
C22_OnlyRootAborts ==
    NumelUnpaddedDisagrees =>
        /\ pc[0] # "loaded"
        /\ \A r \in Ranks \ {0} :
                pc[r] \in {"start", "ready", "restarted", "load", "RuntimeError"}

\* The state_dict after the call holds a dtype key whose parameter dtype is
\* torch.uint8: the state of an fp8 buffer.
SplitOffFp8State ==
    \E i \in 1 .. Len(state_dict') :
        /\ state_dict'[i].key = "gbuf"
        /\ state_dict'[i].dtype[1] = "torch.uint8"

\* C21 (as stated): when the run has an fp8 buffer and the checkpoint is not
\* already split, split_state_dict_if_needed, none of its assertions and
\* lookups failing, routes the segments of the coalesced tensors to an fp8
\* state and a non-fp8 state: it returns and state_dict then holds the state
\* of the fp8 buffer under a torch.uint8 key.
C21_SplitRoutesSegments ==
    [][\A r \in Ranks :
        (/\ SplitCalled(r)
         /\ RunHasFp8Buffer
         /\ ~ CheckpointHasUint8Key
         /\ pc'[r] \notin {"AssertionError", "KeyError"})
            => pc'[r] = "returned" /\ SplitOffFp8State]_vars

\* What the code does: with an fp8 buffer in the run and a checkpoint that is
\* not already split every call ends in an error, a NameError when no
\* assertion or lookup fails first, and state_dict is left as it was.
C21_SplitNeverRoutes ==
    [][\A r \in Ranks :
        (SplitCalled(r) /\ RunHasFp8Buffer /\ ~ CheckpointHasUint8Key)
            => /\ pc'[r] \in {"AssertionError", "KeyError", "NameError"}
               /\ state_dict' = state_dict]_vars

(***************************************************************************)
(* DistributedOptimizer.load_state_dict, "Allocate or retrieve optimizer   *)
(* state": state[r] is self.optimizer.state of rank r, keyed as            *)
(* self.optimizer.state_dict() keys it, by state_order; it is empty until  *)
(* a load or a step fills it.                                              *)
(***************************************************************************)
MaxLoadStateDictCalls == 2

\* inner_state_dict["param_groups"][group_index]["params"][group_order]: the
\* index, counted from 0 through the groups in order, of the group's
\* group_order-th parameter.
StateOrderAt(r, group_index, group_order) ==
    SumOf([g \in 1 .. (group_index - 1) |-> Len(optimizer_param_groups[r][g])])
        + group_order

\* state_order as the loops look it up for a model parameter.
StateOrder(r, model_param) ==
    StateOrderAt(r, model_param_group_index_map[r][model_param][1],
                 model_param_group_index_map[r][model_param][2])

\* state_dict_state after the sort: under every state_order the dummy
\* tensors appended for it (the last, should two parameters share one).
AllocatedState(r) ==
    LET params == LocalParamsInOrder(gbuf_ranges[r])
        Appended(k) == {i \in 1 .. Len(params) : StateOrder(r, params[i]) = k}
    IN  [k \in {StateOrder(r, params[i]) : i \in 1 .. Len(params)} |->
            LET i == CHOOSE j \in Appended(k) : \A h \in Appended(k) : h <= j
                numel == ModelParamRangeMap(gbuf_ranges[r], params[i]).gbuf_world.size
            IN  [exp_avg |-> Empty(numel), exp_avg_sq |-> Empty(numel)]]

\* Rank r calls load_state_dict with a state_dict that holds no
\* 'param_state': the state is allocated when the optimizer has none and
\* the Megatron-FSDP code path is off, otherwise what the optimizer holds
\* is loaded back.
LoadStateDictAllocate(r) ==
    /\ pc[r] = "ready"
    /\ step[r] < MaxLoadStateDictCalls
    /\ step' = [step EXCEPT ![r] = @ + 1]
    /\ state' = [state EXCEPT ![r] =
            IF DOMAIN state[r] = {} /\ ~ with_megatron_fsdp_code_path
            THEN AllocatedState(r)
            ELSE state[r]]
    /\ UNCHANGED <<layout_vars, range_vars, optimizer_vars, pc, in_collective,
                   local_shards, state_dict, param_state, checkpoint_sharding_type,
                   loader, raised>>

NextAllocate ==
    \/ \E r \in Ranks : Construct(r)
    \/ \E r \in Ranks : LoadStateDictAllocate(r)

SpecAllocate == Init /\ [][NextAllocate]_vars

\* The index, counted from 0, of a parameter's own main shard among the
\* parameters of the rank's optimizer, the groups taken in order.
OwnStateOrder(r, model_param) ==
    LET flat == Concat(optimizer_param_groups[r])
    IN  (CHOOSE i \in 1 .. Len(flat) : flat[i] = model_param) - 1

\* Rank r has returned from load_state_dict at least once.
LoadedStateDict(r) == pc[r] = "ready" /\ step[r] >= 1

\* C29 (as stated): off the Megatron-FSDP code path load_state_dict, called
\* while the inner optimizer has no state, installs exactly one state entry
\* per owned parameter, keyed by the parameter's state_order, the keys being
\* distinct, with exp_avg and exp_avg_sq of the length of the parameter's
\* owned range; a later call, the state no longer empty, keeps the entries
\* as they are.
C29_StateEntryPerOwnedParam ==
    /\ [](\A r \in Ranks : LoadedStateDict(r) =>
            /\ Cardinality(DOMAIN state[r]) = Len(OwnedInOrder(r))
            /\ \A i \in 1 .. Len(OwnedInOrder(r)) :
                LET model_param == OwnedInOrder(r)[i]
                    numel == ModelParamRangeMap(gbuf_ranges[r], model_param).param.size
                    state_order == OwnStateOrder(r, model_param)
                IN  /\ state_order \in DOMAIN state[r]
                    /\ Len(state[r][state_order].exp_avg) = numel
                    /\ Len(state[r][state_order].exp_avg_sq) = numel)
    /\ [][\A r \in Ranks :
            (LoadedStateDict(r) /\ DOMAIN state[r] # {}) => state'[r] = state[r]]_vars

\* The same with the key being the state_order the loops look up through
\* model_param_group_index_map: this holds.
C29_StateEntryPerLookedUpOrder ==
    /\ [](\A r \in Ranks : LoadedStateDict(r) =>
            /\ Cardinality(DOMAIN state[r]) = Len(OwnedInOrder(r))
            /\ \A i \in 1 .. Len(OwnedInOrder(r)) :
                LET model_param == OwnedInOrder(r)[i]
                    numel == ModelParamRangeMap(gbuf_ranges[r], model_param).param.size
                    state_order == StateOrder(r, model_param)
                IN  /\ state_order \in DOMAIN state[r]
                    /\ Len(state[r][state_order].exp_avg) = numel
                    /\ Len(state[r][state_order].exp_avg_sq) = numel)
    /\ [][\A r \in Ranks :
            (LoadedStateDict(r) /\ DOMAIN state[r] # {}) => state'[r] = state[r]]_vars

=============================================================================
